---------------------------- MODULE Spec2Model ----------------------------
(***************************************************************************)
(* A model of Parallels/githooks: the Githooks engine (githooks.py: load   *)
(* and run) and the hooks of hooks.d it drives.                            *)
(*                                                                         *)
(* Strings that the code matches with regular expressions (ref names, user *)
(* names) are sequences of characters; a regular expression is a sequence  *)
(* of tokens (a literal character, '.', '.*', or a token that does not     *)
(* compile), matched as re.match matches: anchored at the start only.      *)
(***************************************************************************)
EXTENDS Integers, Sequences, FiniteSets, TLC

(***************************************************************************)
(* Bounds of the model.                                                    *)
(***************************************************************************)
MaxRules == 2
MaxHooks == 2
MaxLines == 2
MaxCommits == 3
MaxCalls == 2
MaxFiles == 2

(***************************************************************************)
(* Object ids.  Zero is '0' * 40.                                          *)
(***************************************************************************)
Zero == "0000"

(***************************************************************************)
(* Regular expressions: re.compile and re.match.                           *)
(***************************************************************************)
Lit(c) == [t |-> "lit", c |-> c]
AnyChar == [t |-> "any", c |-> "."]
AnyStar == [t |-> "anystar", c |-> ".*"]
BadTok == [t |-> "bad", c |-> "("]

\* re.compile(p) raises re.error
Compiles(p) == \A k \in 1..Len(p) : p[k].t # "bad"

RECURSIVE MatchFrom(_, _, _, _)
MatchFrom(p, i, s, j) ==
    IF i > Len(p) THEN TRUE
    ELSE IF p[i].t = "lit" THEN j <= Len(s) /\ s[j] = p[i].c /\ MatchFrom(p, i + 1, s, j + 1)
    ELSE IF p[i].t = "any" THEN j <= Len(s) /\ MatchFrom(p, i + 1, s, j + 1)
    ELSE \E k \in j..(Len(s) + 1) : MatchFrom(p, i + 1, s, k)

\* re.compile(p).match(s) is not None: p matches a prefix of s
ReMatch(p, s) == MatchFrom(p, 1, s, 1)

(***************************************************************************)
(* Ref names and user names of the model.                                  *)
(***************************************************************************)
Master == <<"m">>
ReleaseX == <<"r", "x">>
Branches == {Master, ReleaseX}
Mary == <<"m", "a">>
John == <<"j">>
Users == {Mary, John}

PatAll == <<AnyStar>>
PatRelease == <<Lit("r"), AnyStar>>
PatMary == <<Lit("m"), AnyChar>>
PatBad == <<BadTok>>

(***************************************************************************)
(* Outcomes of a call: a normal return of (permit, messages), or a raise.  *)
(***************************************************************************)
Return(p, m) == [kind |-> "return", permit |-> p, messages |-> m, exc |-> "none"]
Raise(e) == [kind |-> "raise", permit |-> FALSE, messages |-> <<>>, exc |-> e]
Message(at, text) == [at |-> at, text |-> text]

\* A normal return of a value that is not a verdict.
Returns(v) == [kind |-> "return", value |-> v]

(***************************************************************************)
(* The shared parameters of a hook (githooks.ini merged with the hook's    *)
(* section): the set of keys present and the value of 'user_name'.         *)
(***************************************************************************)
ParamKeys == {"user_name", "base_url", "proj_key", "repo_name", "pull_id", "pusher",
              "user_passwd", "smtp_server", "smtp_port", "smtp_from", "email_domain"}

Params(keys, u) == [keys |-> keys, user_name |-> u]

\* try: x = self.params[k] ... except KeyError: raise RuntimeError
MissingParam(params, keys) == ~(keys \subseteq params.keys)

(***************************************************************************)
(* restrict_branches.Hook.check                                            *)
(***************************************************************************)
RuleKeys == {"policy", "type", "branch", "user"}

\* A rule of the settings: a dict with the keys `keys`.
Rule(keys, policy, type, branch, user) ==
    [keys |-> keys, policy |-> policy, type |-> type, branch |-> branch, user |-> user]

\* RbVerdict without the comparison of the rule's type with the kind of push.
RbVerdictAnyType(policy, rule_type, is_new_branch, permit) ==
    policy = "allow"

\* Lines 122-132: the rule's policy becomes the verdict when its type is the
\* kind of this push, and the verdict stays as it was otherwise.
RbVerdict(policy, rule_type, is_new_branch, permit) ==
    IF (is_new_branch /\ rule_type = "create") \/ (~is_new_branch /\ rule_type = "update")
    THEN policy = "allow"
    ELSE permit

\* The loop over self.settings from rule i on: the verdict, or the KeyError
\* of rule['branch'] / rule['user'] (only re.error is caught).
RECURSIVE RbLoop(_, _, _, _, _, _)
RbLoop(settings, i, permit, branch, pusher, is_new_branch) ==
    IF i > Len(settings) THEN [raised |-> FALSE, permit |-> permit]
    ELSE LET rule == settings[i]
             skip == RbLoop(settings, i + 1, permit, branch, pusher, is_new_branch)
         IN  IF "policy" \notin rule.keys THEN skip
             ELSE IF rule.policy \notin {"allow", "deny"} THEN skip
             ELSE IF "type" \notin rule.keys THEN skip
             ELSE IF rule.type \notin {"create", "update"} THEN skip
             ELSE IF "branch" \notin rule.keys THEN [raised |-> TRUE, permit |-> permit]
             ELSE IF ~Compiles(rule.branch) THEN skip
             ELSE IF "user" \notin rule.keys THEN [raised |-> TRUE, permit |-> permit]
             ELSE IF ~Compiles(rule.user) THEN skip
             ELSE IF ~ReMatch(rule.branch, branch) THEN skip
             ELSE IF ~ReMatch(rule.user, pusher) THEN skip
             ELSE RbLoop(settings, i + 1,
                         RbVerdict(rule.policy, rule.type, is_new_branch, permit),
                         branch, pusher, is_new_branch)

\* "Error: You have no permission to %s %s" % (rule_type, branch)
NoPermission(kind, branch) == [fmt |-> "Error: You have no permission to %s %s",
                               kind |-> kind, about |-> branch]

\* RbMessages without the test of permit.
RbMessagesAlways(permit, is_new_branch, branch, new_sha) ==
    <<[at |-> new_sha,
       text |-> NoPermission(IF is_new_branch THEN "create" ELSE "update", branch)]>>

\* Lines 137-142
RbMessages(permit, is_new_branch, branch, new_sha) ==
    IF ~permit
    THEN <<Message(new_sha, NoPermission(IF is_new_branch THEN "create" ELSE "update", branch))>>
    ELSE <<>>

\* IsNewBranchPush that also takes a deletion for the push of a new branch.
IsNewBranchOrDeleted(old_sha, new_sha) == old_sha = Zero \/ new_sha = Zero

\* Lines 71-74: is_new_branch; new_sha plays no part in it.
IsNewBranchPush(old_sha, new_sha) == old_sha = Zero

RestrictBranchesCheck(settings, params, branch, old_sha, new_sha) ==
    IF MissingParam(params, {"user_name"}) THEN Raise("RuntimeError")
    ELSE LET is_new_branch == IsNewBranchPush(old_sha, new_sha)
             r == RbLoop(settings, 1, FALSE, branch, params.user_name, is_new_branch)
         IN  IF r.raised THEN Raise("KeyError")
             ELSE Return(r.permit, RbMessages(r.permit, is_new_branch, branch, new_sha))

(***************************************************************************)
(* The other hooks of hooks.d.  What a check returns depends on the        *)
(* repository, the pull request host and the mail relay; each definition   *)
(* gives the set of outcomes the code can produce for a call               *)
(* check(branch, old_sha, new_sha) on a hook with the given settings and   *)
(* parameters.                                                             *)
(***************************************************************************)
Text(fmt, about) == [fmt |-> fmt, kind |-> "", about |-> about]

\* An element of a settings list of branch patterns.
Re(p) == [re |-> p]

\* The first pattern of the list that compiles and matches the branch:
\* for branch_re in self.settings: try compile except continue; if match: ... break
AnyPatternMatches(patterns, branch) ==
    \E k \in 1..Len(patterns) : Compiles(patterns[k].re) /\ ReMatch(patterns[k].re, branch)

\* The text of the message of deny_non_ff: the fixed sentence, then the hint
\* '\n'.join(['', four lines]).
NonFfText == Text("Cannot push a non-fast-forward reference",
                  <<"Updates were rejected because the tip of your current branch is behind",
                    "its remote counterpart. Integrate the remote changes (e.g.",
                    "'git pull ...') before pushing again.",
                    "See the 'Note about fast-forwards' in 'git push --help' for details.">>)

\* deny_non_ff.Hook.is_ff_push: the results of 'git rev-list'.  With an
\* all-zero old_sha the command lists every commit reachable from new_sha,
\* new_sha among them, so refs is never empty.
IsFfPush(old_sha, new_sha) ==
    IF old_sha = Zero THEN {"not_ff", "CalledProcessError"}
    ELSE {"ff", "not_ff", "CalledProcessError"}

DenyNonFfOutcomes(settings, params, branch, old_sha, new_sha) ==
    IF new_sha = Zero THEN {Return(TRUE, <<>>)}
    ELSE IF ~AnyPatternMatches(settings, branch) THEN {Return(TRUE, <<>>)}
    ELSE {IF r = "ff" THEN Return(TRUE, <<>>)
          ELSE IF r = "not_ff"
          THEN Return(FALSE, <<Message(new_sha, NonFfText)>>)
          ELSE Raise(r) : r \in IsFfPush(old_sha, new_sha)}

MergeCheckParams == {"base_url", "proj_key", "repo_name", "pull_id", "pusher",
                     "user_name", "user_passwd"}

\* merge_check.Hook.check has no test of new_sha: on a deletion it goes on to
\* the pull request and to parse_git_log, where 'git log' of an all-zero id
\* exits with status 128.
MergeCheckOutcomes(settings, params, branch, old_sha, new_sha) ==
    IF MissingParam(params, MergeCheckParams) THEN {Raise("RuntimeError")}
    ELSE IF new_sha = Zero THEN {Raise("RuntimeError"), Raise("CalledProcessError")}
    ELSE {Return(TRUE, <<>>), Return(FALSE, <<>>),
          Raise("RuntimeError"), Raise("CalledProcessError"), Raise("TypeError")}

\* pycheck.Hook.check calls parse_git_log(..., this_branch_only=False), a
\* keyword hookutil.parse_git_log does not take.
PycheckOutcomes(settings, params, branch, old_sha, new_sha) ==
    {Raise("TypeError")}

\* line_endings.Hook.check(self, branch, old_sha, new_sha, pusher) called
\* with three arguments.
LineEndingsOutcomes(settings, params, branch, old_sha, new_sha) ==
    {Raise("TypeError")}

MixedIndent(path) == Text("Error: file '%s' has mixed indentation", <<path>>)

PyIndentOutcomes(settings, params, branch, old_sha, new_sha) ==
    IF new_sha = Zero THEN {Return(TRUE, <<>>)}
    ELSE {Return(TRUE, <<>>),
          Return(FALSE, <<Message(new_sha, MixedIndent(<<"a", ".py">>))>>),
          Return(FALSE, <<Message(new_sha, MixedIndent(<<"a", ".py">>)),
                          Message(new_sha, MixedIndent(<<"b", ".py">>))>>),
          Raise("CalledProcessError")}

CopyrightOutcomes(settings, params, branch, old_sha, new_sha) ==
    IF settings = <<>> THEN {Return(TRUE, <<>>)}
    ELSE IF new_sha = Zero THEN {Return(TRUE, <<>>)}
    ELSE {Raise("TypeError")}

RejectmergeOutcomes(settings, params, branch, old_sha, new_sha) ==
    IF new_sha = Zero THEN {Return(TRUE, <<>>)}
    ELSE {Raise("TypeError")}

\* pep8hook returns early when pycodestyle could not be imported.
Pep8hookOutcomes(settings, params, branch, old_sha, new_sha) ==
    IF new_sha = Zero THEN {Return(TRUE, <<>>)}
    ELSE {Return(TRUE, <<>>), Raise("TypeError")}

\* hookutil.send_mail(mail_to, smtp_from, subject) called with nargs
\* positional arguments: a call with another number of arguments raises
\* TypeError before the body runs; the body returns at once when there is
\* nothing to send, and otherwise lets the errors of smtplib.SMTP and of
\* smtp.sendmail through.
SendMailArity == 3

SendMail(nargs) ==
    IF nargs # SendMailArity THEN {Raise("TypeError")}
    ELSE {Returns("None"), Raise("socket.error"), Raise("SMTPException")}

\* The end of both notification checks: hookutil.send_mail(mails, smtp_from,
\* subject, smtp_server, smtp_port), then return True, [].
SendThenPermit == {IF o.kind = "raise" THEN o ELSE Return(TRUE, <<>>) : o \in SendMail(5)}

EmailMentionParams == {"user_name", "proj_key", "repo_name", "smtp_server", "smtp_port",
                       "smtp_from", "email_domain"}

\* email_mention.Hook.check: compose_mail, where 'git log' can fail, then
\* send_mail.
EmailMentionOutcomes(settings, params, branch, old_sha, new_sha) ==
    IF MissingParam(params, EmailMentionParams) THEN {Raise("RuntimeError")}
    ELSE IF new_sha = Zero THEN {Return(TRUE, <<>>)}
    ELSE IF MissingParam(params, {"base_url"}) THEN {Raise("KeyError")}
    ELSE {Raise("CalledProcessError")} \cup SendThenPermit

NotifyParams == {"user_name", "proj_key", "repo_name", "smtp_server", "smtp_port", "smtp_from"}

NotifyOutcomes(settings, params, branch, old_sha, new_sha) ==
    IF MissingParam(params, NotifyParams) THEN {Raise("RuntimeError")}
    ELSE IF new_sha = Zero THEN {Return(TRUE, <<>>)}
    ELSE IF ~AnyPatternMatches(settings, branch) THEN {Return(TRUE, <<>>)}
    ELSE IF MissingParam(params, {"base_url"}) THEN {Raise("KeyError")}
    ELSE {Raise("CalledProcessError"), Raise("AssertionError")} \cup SendThenPermit

(***************************************************************************)
(* hook.check(branch, old_sha, new_sha) for the hook module `name`.        *)
(***************************************************************************)
HookModules == {"restrict_branches", "deny_non_ff", "merge_check", "pycheck",
                "line_endings", "py_indent", "copyright", "rejectmerge", "pep8hook",
                "email_mention", "notify"}

CheckOutcomes(name, settings, params, branch, old_sha, new_sha) ==
    CASE name = "restrict_branches" ->
             {RestrictBranchesCheck(settings, params, branch, old_sha, new_sha)}
      [] name = "deny_non_ff" -> DenyNonFfOutcomes(settings, params, branch, old_sha, new_sha)
      [] name = "merge_check" -> MergeCheckOutcomes(settings, params, branch, old_sha, new_sha)
      [] name = "pycheck" -> PycheckOutcomes(settings, params, branch, old_sha, new_sha)
      [] name = "line_endings" -> LineEndingsOutcomes(settings, params, branch, old_sha, new_sha)
      [] name = "py_indent" -> PyIndentOutcomes(settings, params, branch, old_sha, new_sha)
      [] name = "copyright" -> CopyrightOutcomes(settings, params, branch, old_sha, new_sha)
      [] name = "rejectmerge" -> RejectmergeOutcomes(settings, params, branch, old_sha, new_sha)
      [] name = "pep8hook" -> Pep8hookOutcomes(settings, params, branch, old_sha, new_sha)
      [] name = "email_mention" -> EmailMentionOutcomes(settings, params, branch, old_sha, new_sha)
      [] name = "notify" -> NotifyOutcomes(settings, params, branch, old_sha, new_sha)

(***************************************************************************)
(* Inputs of the model.                                                    *)
(***************************************************************************)
\* A ref update: one line 'old_sha new_sha branch' of the input.
Update(old_sha, new_sha, branch) == [old |-> old_sha, new |-> new_sha, branch |-> branch]

\* Creation, update and deletion of each branch.
Updates == {Update(Zero, "a1", b) : b \in Branches}
           \cup {Update("a1", "b2", b) : b \in Branches}
           \cup {Update("a1", Zero, b) : b \in Branches}

ParamChoices == {Params(ParamKeys \ missing, u) :
                    missing \in {{}, {"user_name"}, {"smtp_server"}, {"base_url"}},
                    u \in Users}

\* Rules with every field in order.
GoodRules == {Rule(RuleKeys, p, t, bu[1], bu[2]) :
                 p \in {"allow", "deny"}, t \in {"create", "update"},
                 bu \in {<<PatAll, PatAll>>, <<PatRelease, PatAll>>, <<PatAll, PatMary>>}}

\* Rules with one field missing or wrong; but for it each would allow any push
\* of its type.
BadRules == {Rule(RuleKeys \ {k}, "allow", "create", PatAll, PatAll) : k \in RuleKeys}
            \cup {Rule(RuleKeys, "permit", "create", PatAll, PatAll),
                  Rule(RuleKeys, "allow", "delete", PatAll, PatAll),
                  Rule(RuleKeys, "allow", "update", PatBad, PatAll),
                  Rule(RuleKeys, "allow", "update", PatAll, PatBad)}

RECURSIVE SeqsUpTo(_, _)
SeqsUpTo(S, n) ==
    IF n = 0 THEN {<<>>}
    ELSE LET shorter == SeqsUpTo(S, n - 1)
         IN  shorter \cup {Append(q, x) : q \in shorter, x \in S}

RuleLists == SeqsUpTo(GoodRules \cup BadRules, MaxRules)

\* The settings a hook module is configured with (conf[hook]).
SettingsOf(name) ==
    CASE name = "restrict_branches" -> RuleLists
      [] name \in {"deny_non_ff", "notify"} -> {<<>>, <<Re(PatAll)>>, <<Re(PatBad), Re(PatRelease)>>}
      [] name = "copyright" -> {<<>>, <<[start |-> "Copyright", full |-> "Copyright %Y"]>>}
      [] OTHER -> {<<>>}

(***************************************************************************)
(* A hook object called directly, as the tests call it:                    *)
(*     hook.check(request[0], request[1], request[2])                      *)
(***************************************************************************)
\* hkName: the hook module; hkSettings, hkParams: self.settings, self.params;
\* hkUpdate: the ref update of the request; hkResult: what check did.
VARIABLES hkName, hkSettings, hkParams, hkUpdate, hkResult

hkVars == <<hkName, hkSettings, hkParams, hkUpdate, hkResult>>

NotCalled == [kind |-> "none", permit |-> FALSE, messages |-> <<>>, exc |-> "none"]

HookInit ==
    /\ hkName \in HookModules
    /\ hkSettings \in SettingsOf(hkName)
    /\ hkParams \in ParamChoices
    /\ hkUpdate \in Updates
    /\ hkResult = NotCalled

CallCheck ==
    /\ hkResult = NotCalled
    /\ \E o \in CheckOutcomes(hkName, hkSettings, hkParams,
                              hkUpdate.branch, hkUpdate.old, hkUpdate.new) :
           hkResult' = o
    /\ UNCHANGED <<hkName, hkSettings, hkParams, hkUpdate>>

(***************************************************************************)
(* The repository the hooks query: the commit graph and the refs.          *)
(***************************************************************************)
\* Object ids of the commits, oldest first; a parent is older than its child.
ShaNames == <<"c1", "c2", "c3", "c4", "c5">>
Commits == {ShaNames[k] : k \in 1..MaxCommits}
Age(c) == CHOOSE k \in 1..MaxCommits : ShaNames[k] = c

\* A tag, beside the branches.
TagV1 == <<"t">>
RefNames == Branches \cup {TagV1}

\* The commit graphs: each commit has at most two parents, all older.
Graphs == {g \in [Commits -> SUBSET Commits] :
              \A c \in Commits : /\ Cardinality(g[c]) <= 2
                                 /\ \A p \in g[c] : Age(p) < Age(c)}

\* The refs of the repository while the hook runs: a function from the names
\* of the refs that exist to the commits they point at.
RefStates(names) == UNION {[d -> Commits] : d \in SUBSET names}

\* What git walks from a set of tips: the tips and all their ancestors.
RECURSIVE Reach(_, _)
Reach(parents, tips) ==
    IF tips = {} THEN {}
    ELSE tips \cup Reach(parents, UNION {parents[c] : c \in tips})

\* 'git rev-list include... ^exclude...' and 'git log' list the commits
\* reachable from the included tips and from none of the excluded ones.
RevList(parents, include, exclude) == Reach(parents, include) \ Reach(parents, exclude)

\* The listing, newest commit first.
RECURSIVE NewestFirst(_)
NewestFirst(S) ==
    IF S = {} THEN <<>>
    ELSE LET c == CHOOSE x \in S : \A y \in S : Age(y) <= Age(x)
         IN  <<c>> \o NewestFirst(S \ {c})

\* hookutil.parse_git_log: the refs whose commits are excluded with '--not'
\* (every ref of 'git for-each-ref' but the branch being pushed) ...
ExcludedRefsNone(refs, branch) == {}

ExcludedRefs(refs, branch) == DOMAIN refs \ {branch}

\* ... and the log: 'git log new_sha' for a new branch, 'git log
\* old_sha..new_sha' otherwise.  Each commit of the result is a dictionary, of
\* which the model keeps the key 'commit'.  An empty log is returned as {},
\* which iterates as an empty list does.  'git log' of the all-zero id exits
\* with status 128.
ParseGitLog(parents, refs, branch, old_sha, new_sha) ==
    LET excluded == {refs[r] : r \in ExcludedRefs(refs, branch)}
        range == IF old_sha = Zero THEN {} ELSE {old_sha}
    IN  IF new_sha = Zero THEN Raise("CalledProcessError")
        ELSE LET log == NewestFirst(RevList(parents, {new_sha}, range \cup excluded))
             IN  Returns([k \in 1..Len(log) |-> [commit |-> log[k]]])

\* A call parse_git_log(repo, branch, old_sha, new_sha, **kwargs): the
\* function takes these four parameters and no other.
ParseGitLogTakes(kwargs) == kwargs \subseteq {"repo", "branch", "old_sha", "new_sha"}

ParseGitLogCall(kwargs, parents, refs, branch, old_sha, new_sha) ==
    IF ParseGitLogTakes(kwargs)
    THEN ParseGitLog(parents, refs, branch, old_sha, new_sha)
    ELSE Raise("TypeError")

\* deny_non_ff.Hook.is_ff_push: 'git rev-list new_sha' for a new branch,
\* 'git rev-list new_sha..old_sha' otherwise; any output means non-fast-forward.
RevListOldToNew(parents, old_sha, new_sha) ==
    IF old_sha = Zero THEN RevList(parents, {new_sha}, {})
    ELSE RevList(parents, {new_sha}, {old_sha})

RevListNewToOld(parents, old_sha, new_sha) ==
    IF old_sha = Zero THEN RevList(parents, {new_sha}, {})
    ELSE RevList(parents, {old_sha}, {new_sha})

IsFfPushIn(parents, old_sha, new_sha) == RevListNewToOld(parents, old_sha, new_sha) = {}

\* deny_non_ff.Hook.check in a repository whose objects all exist.
DenyNonFfCheck(settings, parents, branch, old_sha, new_sha) ==
    IF new_sha = Zero THEN Return(TRUE, <<>>)
    ELSE LET permit_ == IF AnyPatternMatches(settings, branch)
                        THEN IsFfPushIn(parents, old_sha, new_sha)
                        ELSE TRUE
         IN  Return(permit_, IF ~permit_ THEN <<Message(new_sha, NonFfText)>> ELSE <<>>)

\* rejectmerge.Hook.check: after the test for a deletion,
\*     log = hookutil.parse_git_log(self.repo_dir, branch, old_sha, new_sha,
\*                                  this_branch_only=False)
\* raises; the loop over the commits of the log is never entered.
RejectmergeCheck(settings, parents, refs, branch, old_sha, new_sha) ==
    IF new_sha = Zero THEN Return(TRUE, <<>>)
    ELSE LET log == ParseGitLogCall({"this_branch_only"}, parents, refs, branch,
                                    old_sha, new_sha)
         IN  IF log.kind = "raise" THEN log
             ELSE Return(TRUE, <<>>)

\* gitParents, gitRefs: the commit graph and the refs of the repository;
\* gitUpdate: the ref update being checked (the branch, if it exists, points
\* at the old id); gitSettings: the patterns of deny_non_ff; gitOp: the
\* function called ("none" before the call); gitResult: what it did.
VARIABLES gitParents, gitRefs, gitUpdate, gitSettings, gitOp, gitResult

gitVars == <<gitParents, gitRefs, gitUpdate, gitSettings, gitOp, gitResult>>

GitInit ==
    /\ gitParents \in Graphs
    /\ gitUpdate \in {Update(o, n, b) : o \in Commits \cup {Zero},
                                        n \in Commits \cup {Zero}, b \in Branches}
    /\ \E others \in RefStates(RefNames \ {gitUpdate.branch}) :
           gitRefs = IF gitUpdate.old = Zero THEN others
                     ELSE [r \in DOMAIN others \cup {gitUpdate.branch} |->
                              IF r = gitUpdate.branch THEN gitUpdate.old ELSE others[r]]
    /\ gitSettings \in SettingsOf("deny_non_ff")
    /\ gitOp = "none"
    /\ gitResult = NotCalled

CallParseGitLog ==
    /\ gitOp = "none"
    /\ gitOp' = "parse_git_log"
    /\ gitResult' = ParseGitLogCall({}, gitParents, gitRefs, gitUpdate.branch,
                                    gitUpdate.old, gitUpdate.new)
    /\ UNCHANGED <<gitParents, gitRefs, gitUpdate, gitSettings>>

CallDenyNonFf ==
    /\ gitOp = "none"
    /\ gitOp' = "deny_non_ff"
    /\ gitResult' = DenyNonFfCheck(gitSettings, gitParents, gitUpdate.branch,
                                   gitUpdate.old, gitUpdate.new)
    /\ UNCHANGED <<gitParents, gitRefs, gitUpdate, gitSettings>>

CallRejectmerge ==
    /\ gitOp = "none"
    /\ gitOp' = "rejectmerge"
    /\ gitResult' = RejectmergeCheck(<<>>, gitParents, gitRefs, gitUpdate.branch,
                                     gitUpdate.old, gitUpdate.new)
    /\ UNCHANGED <<gitParents, gitRefs, gitUpdate, gitSettings>>

NoRepository ==
    /\ gitParents = <<>>
    /\ gitRefs = <<>>
    /\ gitUpdate = Update(Zero, Zero, Master)
    /\ gitSettings = <<>>
    /\ gitOp = "none"
    /\ gitResult = NotCalled

(***************************************************************************)
(* hookutil.get_attr, statement by statement.                              *)
(***************************************************************************)
\* The output of 'git check-attr' is a sequence of characters and words:
\* '<filename>: <attr>: <value>\n'.  str.split(':') and str.strip().
RECURSIVE Split(_, _)
Split(s, sep) ==
    IF \A k \in 1..Len(s) : s[k] # sep THEN <<s>>
    ELSE LET i == CHOOSE k \in 1..Len(s) : s[k] = sep /\ \A j \in 1..(k - 1) : s[j] # sep
         IN  <<SubSeq(s, 1, i - 1)>> \o Split(SubSeq(s, i + 1, Len(s)), sep)

Blank(c) == c \in {" ", "\n"}

RECURSIVE Strip(_)
Strip(s) ==
    IF s = <<>> THEN s
    ELSE IF Blank(s[1]) THEN Strip(Tail(s))
    ELSE IF Blank(s[Len(s)]) THEN Strip(SubSeq(s, 1, Len(s) - 1))
    ELSE s

CheckAttrOutput(filename, attr, value) ==
    filename \o <<":", " ", attr, ":", " ", value, "\n">>

\* chunks = [c.strip() for c in out.split(':')]; the two assertions; chunks[2].
ParseCheckAttr(out, filename, attr) ==
    LET parts == Split(out, ":")
        chunks == [k \in 1..Len(parts) |-> Strip(parts[k])]
    IN  IF chunks[1] # filename THEN Raise("AssertionError")
        ELSE IF Len(chunks) < 2 THEN Raise("IndexError")
        ELSE IF chunks[2] # <<attr>> THEN Raise("AssertionError")
        ELSE IF Len(chunks) < 3 THEN Raise("IndexError")
        ELSE Returns(chunks[3])

\* Paths: a plain one and one with a colon in its name.
PathA == <<"a">>
PathColon == <<"a", ":", "b">>
AttrPaths == {PathA, PathColon}
AttrNames == {"text", "owners"}
AttrValues == {"unspecified", "set", "unset"}

\* gaPc: the statement get_attr is at ("idle" between calls); gaCalls: the
\* calls begun so far; gaArgs: filename and attr of the call; gaIdx: its
\* idx_file; gaTmp: the temporary files that exist; gaOut: the output of
\* 'git check-attr'; gaResult: how the last call ended.
VARIABLES gaPc, gaCalls, gaArgs, gaIdx, gaTmp, gaOut, gaResult

gaVars == <<gaPc, gaCalls, gaArgs, gaIdx, gaTmp, gaOut, gaResult>>

NoArgs == [filename |-> <<>>, attr |-> ""]

AttrInit ==
    /\ gaPc = "idle"
    /\ gaCalls = 0
    /\ gaArgs = NoArgs
    /\ gaIdx = 0
    /\ gaTmp = {}
    /\ gaOut = <<>>
    /\ gaResult = NotCalled

\* idx_file = tempfile.mkstemp(suffix='git_index')[1]
Mkstemp ==
    /\ gaPc = "idle"
    /\ gaCalls < MaxCalls
    /\ \E f \in AttrPaths, a \in AttrNames : gaArgs' = [filename |-> f, attr |-> a]
    /\ gaCalls' = gaCalls + 1
    /\ gaIdx' = gaCalls + 1
    /\ gaTmp' = gaTmp \cup {gaCalls + 1}
    /\ gaPc' = "read_tree"
    /\ gaOut' = <<>>
    /\ gaResult' = NotCalled

\* run(['git', 'read-tree', new_sha, '--index-output', idx_file], repo_dir):
\* run raises CalledProcessError when the command exits with a non-zero status.
ReadTree ==
    /\ gaPc = "read_tree"
    /\ \/ gaPc' = "check_attr" /\ UNCHANGED gaResult
       \/ gaPc' = "idle" /\ gaResult' = Raise("CalledProcessError")
    /\ UNCHANGED <<gaCalls, gaArgs, gaIdx, gaTmp, gaOut>>

\* _, out, _ = run(['git', 'check-attr', '--cached', attr, '--', filename], ...)
CheckAttr ==
    /\ gaPc = "check_attr"
    /\ \/ /\ \E v \in AttrValues : gaOut' = CheckAttrOutput(gaArgs.filename, gaArgs.attr, v)
          /\ gaPc' = "remove"
          /\ UNCHANGED gaResult
       \/ /\ gaPc' = "idle"
          /\ gaResult' = Raise("CalledProcessError")
          /\ UNCHANGED gaOut
    /\ UNCHANGED <<gaCalls, gaArgs, gaIdx, gaTmp>>

\* os.remove(idx_file)
RemoveIdx ==
    /\ gaPc = "remove"
    /\ gaTmp' = gaTmp \ {gaIdx}
    /\ gaPc' = "parse"
    /\ UNCHANGED <<gaCalls, gaArgs, gaIdx, gaOut, gaResult>>

\* The parsing of the output and the return.
ParseOutput ==
    /\ gaPc = "parse"
    /\ gaResult' = ParseCheckAttr(gaOut, gaArgs.filename, gaArgs.attr)
    /\ gaPc' = "idle"
    /\ UNCHANGED <<gaCalls, gaArgs, gaIdx, gaTmp, gaOut>>

NoGetAttr ==
    /\ gaPc = "none"
    /\ gaCalls = 0
    /\ gaArgs = NoArgs
    /\ gaIdx = 0
    /\ gaTmp = {}
    /\ gaOut = <<>>
    /\ gaResult = NotCalled

(***************************************************************************)
(* merge_check.Hook.check against a pull request, the files of the         *)
(* commits and their 'owners' attributes.                                  *)
(***************************************************************************)
\* Mail addresses: the pusher (self.params['pusher']) and two other owners.
PusherMail == "mary@"
OtherOwners == {"bob@", "amy@"}
Owners == {PusherMail} \cup OtherOwners

\* One element of pr.json()['reviewers'].
Reviewer(email, role, approved) == [email |-> email, role |-> role, approved |-> approved]

\* The answer to the request for the pull request: a failed request, a body
\* that lacks a key, or the reviewers.
PullRequest(kind, reviewers) == [kind |-> kind, reviewers |-> reviewers]

\* reviewers: the addresses of those with role REVIEWER who approved.
ApprovedReviewers(pr) ==
    {r.email : r \in {x \in pr.reviewers : x.role = "REVIEWER" /\ x.approved}}

\* A modified file of a commit of the log with the value of its attribute
\* 'owners': "unspecified", "unset", or a list of addresses
\* (owners_attr.split(',')).
ModFile(commit, path, attr, owners) ==
    [commit |-> commit, path |-> path, attr |-> attr, owners |-> owners]

Unapproved(commit, owner, path) == [commit |-> commit, owner |-> owner, path |-> path]

\* for owner in owners_attr.split(','): the entries appended to files.
\*   - pusher == owner: break;
\*   - the request for the user fails: logged, continue;
\*   - owner not in reviewers: files.append(...).
RECURSIVE OwnersLoop(_, _, _, _, _)
OwnersLoop(modfile, i, pusher, reviewers, lookup_fails) ==
    IF i > Len(modfile.owners) THEN <<>>
    ELSE LET owner == modfile.owners[i]
             rest == OwnersLoop(modfile, i + 1, pusher, reviewers, lookup_fails)
         IN  IF pusher = owner THEN <<>>
             ELSE IF owner \in lookup_fails THEN rest
             ELSE IF owner \notin reviewers
                  THEN <<Unapproved(modfile.commit, owner, modfile.path)>> \o rest
                  ELSE rest

\* for commit in log: for modfile in modfiles: the list files at the end of
\* the loops.  modfiles holds the files in the order the loops visit them.
RECURSIVE FilesLoop(_, _, _, _, _)
FilesLoop(modfiles, k, pusher, reviewers, lookup_fails) ==
    IF k > Len(modfiles) THEN <<>>
    ELSE LET rest == FilesLoop(modfiles, k + 1, pusher, reviewers, lookup_fails)
         IN  IF modfiles[k].attr \in {"unspecified", "unset"} THEN rest
             ELSE OwnersLoop(modfiles[k], 1, pusher, reviewers, lookup_fails) \o rest

\* The report: with more than one owner outstanding,
\* ', '.join(all_owners[:-1] + ' and ', all_owners[-1]) adds a str to a list.
MergeCheck(keys, pusher, pr, modfiles, lookup_fails) ==
    IF ~(MergeCheckParams \subseteq keys) THEN Raise("RuntimeError")
    ELSE IF pr.kind = "failed" THEN Raise("RuntimeError")
    ELSE IF pr.kind = "malformed" THEN Raise("RuntimeError")
    ELSE LET files == FilesLoop(modfiles, 1, pusher, ApprovedReviewers(pr), lookup_fails)
             all_owners == {files[k].owner : k \in 1..Len(files)}
         IN  IF files = <<>> THEN Return(TRUE, <<>>)
             ELSE IF Cardinality(all_owners) > 1 THEN Raise("TypeError")
             ELSE Return(FALSE, <<>>)

\* Inputs: the owner lists, the files, the pull requests.
OwnerLists == {<<a>> : a \in Owners} \cup
              {l \in {<<a, b>> : a \in Owners, b \in Owners} : l[1] # l[2]}

ModFileChoices(path) ==
    {ModFile("c1", path, a, <<>>) : a \in {"unspecified", "unset"}}
    \cup {ModFile("c1", path, "value", l) : l \in OwnerLists}

PathNames == <<"f1", "f2", "f3", "f4">>

RECURSIVE ModFileLists(_)
ModFileLists(n) ==
    IF n = 0 THEN {<<>>}
    ELSE LET shorter == ModFileLists(n - 1)
         IN  shorter \cup {Append(q, f) : q \in {x \in shorter : Len(x) = n - 1},
                                          f \in ModFileChoices(PathNames[n])}

PullRequests ==
    {PullRequest("failed", {}), PullRequest("malformed", {})}
    \cup {PullRequest("ok", {Reviewer("bob@", rb[1], rb[2]) : rb \in bob}
                            \cup {Reviewer("amy@", "REVIEWER", TRUE) : x \in amy}) :
             bob \in {{}, {<<"REVIEWER", TRUE>>}, {<<"REVIEWER", FALSE>>},
                      {<<"PARTICIPANT", TRUE>>}},
             amy \in {{}, {1}}}

\* mcKeys: the keys of self.params; mcPr: the answer of the host to the
\* request for the pull request; mcFiles: the modified files of the commits
\* of the log; mcLookupFails: the owners whose user request fails;
\* mcResult: what check did.
VARIABLES mcKeys, mcPr, mcFiles, mcLookupFails, mcResult

mcVars == <<mcKeys, mcPr, mcFiles, mcLookupFails, mcResult>>

MergeInit ==
    /\ mcKeys \in {ParamKeys, ParamKeys \ {"pull_id"}}
    /\ mcPr \in PullRequests
    /\ mcFiles \in ModFileLists(MaxFiles)
    /\ mcLookupFails \in SUBSET OtherOwners
    /\ mcResult = NotCalled

CallMergeCheck ==
    /\ mcResult = NotCalled
    /\ mcResult' = MergeCheck(mcKeys, PusherMail, mcPr, mcFiles, mcLookupFails)
    /\ UNCHANGED <<mcKeys, mcPr, mcFiles, mcLookupFails>>

NoMergeCheck ==
    /\ mcKeys = {}
    /\ mcPr = PullRequest("none", {})
    /\ mcFiles = <<>>
    /\ mcLookupFails = {}
    /\ mcResult = NotCalled

(***************************************************************************)
(* The hooks that read the files of the commits: py_indent, line_endings   *)
(* and copyright.                                                          *)
(***************************************************************************)
\* A path is the sequence of the parts of its name, the extension last; the
\* contents of a file are a sequence of characters.
EndsWith(path, ext) == path # <<>> /\ path[Len(path)] = ext

\* A file of the raw listing 'git show --raw' of a commit: the path, the
\* status ('M', 'A' or 'D'), the value of the attribute 'text' of the path,
\* and what 'git show <new_blob>' prints.
ShownFile(path, status, text_attr, contents) ==
    [path |-> path, status |-> status, text_attr |-> text_attr, contents |-> contents]

\* A commit of the log with the files of its raw listing.
LoggedCommit(commit, modfiles) == [commit |-> commit, modfiles |-> modfiles]

RECURSIVE SelectSeq2(_, _, _)
SelectSeq2(s, k, keep) ==
    IF k > Len(s) THEN <<>>
    ELSE (IF s[k] \in keep THEN <<s[k]>> ELSE <<>>) \o SelectSeq2(s, k + 1, keep)

\* hookutil.parse_git_show(repo, sha, extensions): the files of the listing
\* whose path ends with one of the extensions, all of them when extensions is
\* None (here {}).
ParseGitShowAny(modfiles, extensions) == modfiles

ParseGitShow(modfiles, extensions) ==
    IF extensions = {} THEN modfiles
    ELSE SelectSeq2(modfiles, 1,
                    {f \in {modfiles[k] : k \in 1..Len(modfiles)} :
                        \E ext \in extensions : EndsWith(f.path, ext)})

\* Visits with the commits of the log taken last to first.
RECURSIVE VisitsOldestFirst(_, _, _)
VisitsOldestFirst(log, c, extensions) ==
    IF c > Len(log) THEN <<>>
    ELSE LET modfiles == ParseGitShow(log[c].modfiles, extensions)
         IN  VisitsOldestFirst(log, c + 1, extensions)
             \o [k \in 1..Len(modfiles) |-> [commit |-> log[c].commit, modfile |-> modfiles[k]]]

\* for commit in log: for modfile in parse_git_show(...): the pairs
\* (commit, modfile) in the order the two loops visit them.
RECURSIVE Visits(_, _, _)
Visits(log, c, extensions) ==
    IF c > Len(log) THEN <<>>
    ELSE LET modfiles == ParseGitShow(log[c].modfiles, extensions)
         IN  [k \in 1..Len(modfiles) |-> [commit |-> log[c].commit, modfile |-> modfiles[k]]]
             \o Visits(log, c + 1, extensions)

\* py_indent: has_mixed_indent(file_contents), the loop over
\* file_contents.split('\n').
RECURSIVE MixedIndentLoop(_, _, _, _)
MixedIndentLoop(file_lines, k, has_tab, has_space) ==
    IF k > Len(file_lines) THEN FALSE
    ELSE LET line == file_lines[k]
             tab == has_tab \/ (line # <<>> /\ line[1] = "\t")
             space == has_space \/ (~(line # <<>> /\ line[1] = "\t") /\ line # <<>> /\ line[1] = " ")
         IN  IF tab /\ space THEN TRUE
             ELSE MixedIndentLoop(file_lines, k + 1, tab, space)

HasMixedIndent(file_contents) == MixedIndentLoop(Split(file_contents, "\n"), 1, FALSE, FALSE)

\* py_indent.Hook.check from the loop on.
RECURSIVE PyIndentLoop(_, _, _, _)
PyIndentLoop(visits, k, permit, messages) ==
    IF k > Len(visits) THEN Return(permit, messages)
    ELSE LET modfile == visits[k].modfile
             permit_py_indent == ~HasMixedIndent(modfile.contents)
         IN  IF modfile.status = "D" THEN PyIndentLoop(visits, k + 1, permit, messages)
             ELSE PyIndentLoop(visits, k + 1, permit /\ permit_py_indent,
                               IF ~permit_py_indent
                               THEN Append(messages, Message(visits[k].commit,
                                                             MixedIndent(modfile.path)))
                               ELSE messages)

\* py_indent.Hook.check, given what parse_git_log returns.
PyIndentCheck(log, new_sha) ==
    IF new_sha = Zero THEN Return(TRUE, <<>>)
    ELSE PyIndentLoop(Visits(log, 1, {".py"}), 1, TRUE, <<>>)

\* line_endings: has_mixed_le(file_contents):
\*     '\r\n' in file_contents and '\n' in file_contents.replace('\r\n', '')
IsCrLfAt(s, k) == k + 1 <= Len(s) /\ s[k] = "\r" /\ s[k + 1] = "\n"

RECURSIVE RemoveCrLf(_, _)
RemoveCrLf(s, k) ==
    IF k > Len(s) THEN <<>>
    ELSE IF IsCrLfAt(s, k) THEN RemoveCrLf(s, k + 2)
    ELSE <<s[k]>> \o RemoveCrLf(s, k + 1)

HasMixedLe(file_contents) ==
    /\ \E k \in 1..Len(file_contents) : IsCrLfAt(file_contents, k)
    /\ LET rest == RemoveCrLf(file_contents, 1)
       IN  \E k \in 1..Len(rest) : rest[k] = "\n"

MixedLineEndings(path) == Text("Error: file '%s' has mixed line endings (CRLF/LF)", <<path>>)

\* A local variable: bound to a value, or not yet assigned.
Unbound == [bound |-> FALSE, value |-> FALSE]
Bound(v) == [bound |-> TRUE, value |-> v]

\* line_endings.Hook.check from the loop on.  permit_file is assigned under
\* 'if text_attr == 'unspecified':' and read after it in
\* 'permit = permit and permit_file', which evaluates permit_file when permit
\* is true.
RECURSIVE LineEndingsLoop(_, _, _, _, _)
LineEndingsLoop(visits, k, permit, permit_file, messages) ==
    IF k > Len(visits) THEN Return(permit, messages)
    ELSE LET modfile == visits[k].modfile
             unspecified == modfile.text_attr = "unspecified"
             permit_file_ == IF unspecified THEN Bound(~HasMixedLe(modfile.contents))
                             ELSE permit_file
             messages_ == IF unspecified /\ ~permit_file_.value
                          THEN Append(messages, Message(visits[k].commit,
                                                        MixedLineEndings(modfile.path)))
                          ELSE messages
         IN  IF modfile.status = "D"
             THEN LineEndingsLoop(visits, k + 1, permit, permit_file, messages)
             ELSE IF permit /\ ~permit_file_.bound THEN Raise("UnboundLocalError")
             ELSE LineEndingsLoop(visits, k + 1, permit /\ permit_file_.value,
                                  permit_file_, messages_)

\* line_endings.Hook.check(self, branch, old_sha, new_sha, pusher) called
\* with nargs arguments.
LineEndingsArity == 4

LineEndingsCheck(nargs, log, new_sha) ==
    IF nargs # LineEndingsArity THEN Raise("TypeError")
    ELSE IF new_sha = Zero THEN Return(TRUE, <<>>)
    ELSE LineEndingsLoop(Visits(log, 1, {}), 1, TRUE, Unbound, <<>>)

\* copyright: re.search(pattern, file_contents).
ReSearch(p, s) == \E j \in 1..(Len(s) + 1) : MatchFrom(p, 1, s, j)

\* copyright.Hook.__init__: '%Y' in both patterns of each pair is replaced
\* with the current year.
ThisYear == "Y"

YearReplaced(p) == [k \in 1..Len(p) |-> IF p[k] = Lit("%Y") THEN Lit(ThisYear) ELSE p[k]]

CopyrightSettings(settings) ==
    [k \in 1..Len(settings) |-> [start |-> YearReplaced(settings[k].start),
                                 full |-> YearReplaced(settings[k].full)]]

\* has_good_copyright(file_contents, copyrights)
HasGoodCopyright(file_contents, copyrights) ==
    \A k \in 1..Len(copyrights) :
        ReSearch(copyrights[k].start, file_contents) =>
            ReSearch(copyrights[k].full, file_contents)

BadCopyright(path) == Text("Error: Bad copyright in file '%s'!", <<path>>)

UpdateCopyright(copyrights) ==
    Text("Please update the copyright strings to match one of the following:",
         [k \in 1..Len(copyrights) |-> copyrights[k].full])

RECURSIVE CopyrightLoop(_, _, _, _, _)
CopyrightLoop(visits, k, copyrights, permit, messages) ==
    IF k > Len(visits) THEN [permit |-> permit, messages |-> messages]
    ELSE LET modfile == visits[k].modfile
             permit_file == HasGoodCopyright(modfile.contents, copyrights)
         IN  IF modfile.status = "D"
             THEN CopyrightLoop(visits, k + 1, copyrights, permit, messages)
             ELSE CopyrightLoop(visits, k + 1, copyrights, permit /\ permit_file,
                                IF ~permit_file
                                THEN Append(messages, Message(visits[k].commit,
                                                              BadCopyright(modfile.path)))
                                ELSE messages)

\* copyright.Hook.check on the hook constructed with `settings`; the call
\*     hookutil.parse_git_log(self.repo_dir, branch, old_sha, new_sha,
\*                            this_branch_only=False)
\* passes a keyword parse_git_log does not take.
CopyrightCheck(settings, log, new_sha) ==
    LET copyrights == CopyrightSettings(settings)
    IN  IF copyrights = <<>> THEN Return(TRUE, <<>>)
        ELSE IF new_sha = Zero THEN Return(TRUE, <<>>)
        ELSE IF ~ParseGitLogTakes({"this_branch_only"}) THEN Raise("TypeError")
        ELSE LET r == CopyrightLoop(Visits(log, 1, {}), 1, copyrights, TRUE, <<>>)
             IN  Return(r.permit,
                        IF ~r.permit
                        THEN Append(r.messages, Message(new_sha, UpdateCopyright(copyrights)))
                        ELSE r.messages)

\* Inputs: paths, contents and files for each of the three hooks.
APy == <<"a", ".py">>
BPy == <<"b", ".py">>
CTxt == <<"c", ".txt">>

SpacesOnly == <<" ", "x", "\n", " ", "x">>
TabsOnly == <<"\t", "x", "\n", "\t", "x">>
TabThenSpace == <<"\t", "x", "\n", " ", "x">>
InnerTab == <<" ", "\t", "x", "\n", "x", "\t">>

IndentFiles ==
    {ShownFile(APy, "M", "unspecified", c) : c \in {SpacesOnly, TabsOnly, TabThenSpace, InnerTab}}
    \cup {ShownFile(APy, "D", "unspecified", <<>>),
          ShownFile(BPy, "A", "unspecified", TabThenSpace),
          ShownFile(BPy, "A", "unspecified", SpacesOnly),
          ShownFile(CTxt, "M", "unspecified", TabThenSpace)}

LfOnly == <<"x", "\n", "x", "\n">>
CrLfOnly == <<"x", "\r", "\n", "x", "\r", "\n">>
CrLfThenLf == <<"x", "\r", "\n", "x", "\n">>
CrThenLf == <<"x", "\r", "x", "\n">>

LineEndingFiles ==
    {ShownFile(APy, "M", "unspecified", c) : c \in {LfOnly, CrLfOnly, CrLfThenLf, CrThenLf}}
    \cup {ShownFile(APy, "D", "unspecified", <<>>),
          ShownFile(BPy, "M", "set", CrLfThenLf),
          ShownFile(BPy, "M", "unset", LfOnly),
          ShownFile(CTxt, "A", "unspecified", CrLfThenLf)}

\* 'C' stands for the word the start pattern looks for, 'Y' for the current
\* year, 'O' for another year.
CurrentCopyright == <<"x", "C", "Y">>
OldCopyright == <<"C", "O", "x">>
NoCopyright == <<"x", "Y">>

CopyrightFiles ==
    {ShownFile(APy, "M", "unspecified", c) : c \in {CurrentCopyright, OldCopyright, NoCopyright}}
    \cup {ShownFile(APy, "D", "unspecified", <<>>),
          ShownFile(CTxt, "A", "unspecified", OldCopyright)}

CopyrightPairs == {<<>>, <<[start |-> <<Lit("C")>>, full |-> <<Lit("C"), Lit("%Y")>>]>>}

DistinctPaths(modfiles) ==
    \A i, j \in 1..Len(modfiles) : modfiles[i].path = modfiles[j].path => i = j

\* The logs of at most two commits with at most MaxFiles files in all, the
\* paths of a commit distinct.
Logs(files) ==
    LET lists == {l \in SeqsUpTo(files, MaxFiles) : DistinctPaths(l)}
    IN  {<<>>} \cup {<<LoggedCommit("c2", a)>> : a \in lists}
        \cup {<<LoggedCommit("c2", ab[1]), LoggedCommit("c1", ab[2])>> :
                 ab \in {x \in lists \X lists : Len(x[1]) + Len(x[2]) <= MaxFiles}}

\* ctHook: the hook module; ctSettings: the settings it is constructed with;
\* ctLog: the commits parse_git_log lists for the update, each with the files
\* of its raw listing; ctNew: new_sha; ctResult: what check did.
VARIABLES ctHook, ctSettings, ctLog, ctNew, ctResult

ctVars == <<ctHook, ctSettings, ctLog, ctNew, ctResult>>

ContentInit ==
    /\ ctHook \in {"py_indent", "line_endings", "copyright"}
    /\ ctSettings \in IF ctHook = "copyright" THEN CopyrightPairs ELSE {<<>>}
    /\ \/ ctNew = Zero /\ ctLog = <<>>
       \/ /\ ctNew = "c2"
          /\ ctLog \in CASE ctHook = "py_indent" -> Logs(IndentFiles)
                         [] ctHook = "line_endings" -> Logs(LineEndingFiles)
                         [] ctHook = "copyright" -> Logs(CopyrightFiles)
    /\ ctResult = NotCalled

CallPyIndent ==
    /\ ctHook = "py_indent"
    /\ ctResult = NotCalled
    /\ ctResult' = PyIndentCheck(ctLog, ctNew)
    /\ UNCHANGED <<ctHook, ctSettings, ctLog, ctNew>>

\* line_endings called with the four arguments of its signature.
CallLineEndings ==
    /\ ctHook = "line_endings"
    /\ ctResult = NotCalled
    /\ ctResult' = LineEndingsCheck(LineEndingsArity, ctLog, ctNew)
    /\ UNCHANGED <<ctHook, ctSettings, ctLog, ctNew>>

CallCopyright ==
    /\ ctHook = "copyright"
    /\ ctResult = NotCalled
    /\ ctResult' = CopyrightCheck(ctSettings, ctLog, ctNew)
    /\ UNCHANGED <<ctHook, ctSettings, ctLog, ctNew>>

NoContentHook ==
    /\ ctHook = "none"
    /\ ctSettings = <<>>
    /\ ctLog = <<>>
    /\ ctNew = Zero
    /\ ctResult = NotCalled

(***************************************************************************)
(* email_mention and notify: compose_mail.                                 *)
(***************************************************************************)
\* The characters of a commit message: word characters (\w), the dot, the
\* at sign and a blank (\W).
WordChars == {"a", "b"}
MessageChars == WordChars \cup {".", "@", " "}
IsWord(c) == c \in WordChars

Max(S) == CHOOSE x \in S : \A y \in S : y <= x
Min(S) == CHOOSE x \in S : \A y \in S : x <= y

\* The positions from u on that [\w\.]* can reach.
UsernameRun(s, u) ==
    {e \in u..Len(s) : \A k \in (u + 1)..e : IsWord(s[k]) \/ s[k] = "."}

\* UsernameEnd with the dots that follow the name taken into it.
UsernameEndWithDots(s, u) == Max(UsernameRun(s, u))

\* (\w[\w\.]*\w|\w) matched at u, where s[u] is a word character: the end of
\* the longest run of word characters and dots that ends in a word
\* character, or u itself.
UsernameEnd(s, u) ==
    LET ends == {e \in UsernameRun(s, u) : e > u /\ IsWord(s[e])}
    IN  IF ends = {} THEN u ELSE Max(ends)

\* The pattern (?:\W+|^)@(\w[\w\.]*\w|\w) matched from position i: the
\* position of the '@' it matches, or 0.  \W+ is tried first, longest first,
\* then ^, which holds at the start of the message only.
MatchAt(s, i) ==
    LET after == {j \in (i + 1)..(Len(s) - 1) :
                     /\ \A k \in i..(j - 1) : ~IsWord(s[k])
                     /\ s[j] = "@"
                     /\ IsWord(s[j + 1])}
    IN  IF after # {} THEN Max(after)
        ELSE IF i = 1 /\ Len(s) >= 2 /\ s[1] = "@" /\ IsWord(s[2]) THEN 1
        ELSE 0

\* re.findall(pattern, message): the usernames of the matches found from
\* left to right, each search starting where the last match ended.
RECURSIVE FindAll(_, _)
FindAll(s, pos) ==
    LET starts == {i \in pos..Len(s) : MatchAt(s, i) # 0}
    IN  IF starts = {} THEN <<>>
        ELSE LET at == MatchAt(s, Min(starts))
                 end == UsernameEnd(s, at + 1)
             IN  <<SubSeq(s, at + 1, end)>> \o FindAll(s, end + 1)

\* A commit of the log with its message.
MessageCommit(commit, message) == [commit |-> commit, message |-> message]

\* for commit in log: for username in re.findall(...): users.append(ci)
RECURSIVE UsersLoop(_, _)
UsersLoop(log, c) ==
    IF c > Len(log) THEN <<>>
    ELSE LET found == FindAll(log[c].message, 1)
         IN  [k \in 1..Len(found) |-> [key |-> found[k], commit |-> log[c].commit]]
             \o UsersLoop(log, c + 1)

\* sorted(list, key=...): a stable sort of s by the ranks of its elements.
RECURSIVE InsertByRank(_, _, _)
InsertByRank(sorted, x, rank) ==
    IF sorted = <<>> THEN <<[item |-> x, rank |-> rank]>>
    ELSE IF rank < Head(sorted).rank THEN <<[item |-> x, rank |-> rank]>> \o sorted
    ELSE <<Head(sorted)>> \o InsertByRank(Tail(sorted), x, rank)

RECURSIVE SortRanked(_, _, _)
SortRanked(s, ranks, n) ==
    IF n = 0 THEN <<>>
    ELSE InsertByRank(SortRanked(s, ranks, n - 1), s[n], ranks[n])

\* Sorted with the list left as it is.
Unsorted(s, ranks) == s

Sorted(s, ranks) ==
    LET r == SortRanked(s, ranks, Len(s))
    IN  [k \in 1..Len(r) |-> r[k].item]

\* itertools.groupby(list, key=...): the runs of consecutive elements of s
\* with equal keys, as the sublists of s.
RECURSIVE GroupBy(_, _)
GroupBy(s, keys) ==
    IF s = <<>> THEN <<>>
    ELSE LET n == Min({k \in 1..Len(s) : k = Len(s) \/ keys[k + 1] # keys[1]})
         IN  <<SubSeq(s, 1, n)>> \o GroupBy(SubSeq(s, n + 1, Len(s)), SubSeq(keys, n + 1, Len(keys)))

\* mails[key] = text for each group in turn: a later group with the key of
\* an earlier one replaces its mail.
RECURSIVE MailsOf(_, _)
MailsOf(texts, n) ==
    IF n = 0 THEN {}
    ELSE {m \in MailsOf(texts, n - 1) : m.to # texts[n].to} \cup {texts[n]}

Mail(to, body) == [to |-> to, body |-> body]

\* The order of Python on the usernames: that of their characters, a name
\* before the names it begins.
MaxMsgLen == 4

CharRank(c) == CASE c = "." -> 1 [] c = "a" -> 2 [] c = "b" -> 3

RECURSIVE UserRank(_, _, _)
UserRank(u, k, acc) ==
    IF k > MaxMsgLen THEN acc
    ELSE UserRank(u, k + 1, 4 * acc + (IF k <= Len(u) THEN CharRank(u[k]) ELSE 0))

EmailDomain == <<"d">>

\* The body of a mail of email_mention: its commits, one paragraph each.
\* email_mention.Hook.compose_mail, given what parse_git_log returns.
MentionComposeMail(log) ==
    LET found == UsersLoop(log, 1)
        users == Sorted(found, [k \in 1..Len(found) |-> UserRank(found[k].key, 1, 0)])
        groups == GroupBy(users, [k \in 1..Len(users) |-> users[k].key])
        texts == [g \in 1..Len(groups) |->
                     Mail(groups[g][1].key \o <<"@">> \o EmailDomain,
                          [k \in 1..Len(groups[g]) |-> groups[g][k].commit])]
    IN  MailsOf(texts, Len(texts))

\* A file of a raw listing with the value of its 'owners' attribute:
\* 'unspecified', 'unset', or the list of names between the commas.
OwnedFile(path, status, attr, owners) ==
    [path |-> path, status |-> status, attr |-> attr, owners |-> owners]

Amy == "amy@"
Bob == "bob@"
NotifyOwners == {Amy, Bob}
OwnerRank(o) == IF o = Amy THEN 1 ELSE 2

\* for owner in set(owners_attr.split(',')): each name once; the order of
\* the names of one file does not outlive the sort by owner.
OwnersOnce(owners) ==
    LET names == {owners[k] : k \in 1..Len(owners)}
    IN  (IF Amy \in names THEN <<Amy>> ELSE <<>>) \o (IF Bob \in names THEN <<Bob>> ELSE <<>>)

\* for commit in log: for modfile in show: ... files.append(...)
RECURSIVE NotifyFilesLoop(_, _, _)
NotifyFilesLoop(log, c, f) ==
    IF c > Len(log) THEN <<>>
    ELSE IF f > Len(log[c].modfiles) THEN NotifyFilesLoop(log, c + 1, 1)
    ELSE LET modfile == log[c].modfiles[f]
             owners == IF modfile.attr \in {"unspecified", "unset"} THEN <<>>
                       ELSE OwnersOnce(modfile.owners)
         IN  [k \in 1..Len(owners) |->
                 [key |-> owners[k], commit |-> log[c].commit, path |-> modfile]]
             \o NotifyFilesLoop(log, c, f + 1)

\* A paragraph of a mail of notify: a commit, then the status and the path
\* of each file of the group.
Paragraph(paths) ==
    [commit |-> paths[1].commit,
     paths |-> [k \in 1..Len(paths) |->
                   [status |-> paths[k].path.status, path |-> paths[k].path.path]]]

\* notify.Hook.compose_mail, given what parse_git_log returns.
NotifyComposeMail(log) ==
    LET found == NotifyFilesLoop(log, 1, 1)
        files == Sorted(found, [k \in 1..Len(found) |-> OwnerRank(found[k].key)])
        groups == GroupBy(files, [k \in 1..Len(files) |-> files[k].key])
        texts == [g \in 1..Len(groups) |->
                     LET commits == groups[g]
                         by_commit == GroupBy(commits,
                                              [k \in 1..Len(commits) |-> commits[k].commit])
                     IN  Mail(commits[1].key,
                              [p \in 1..Len(by_commit) |-> Paragraph(by_commit[p])])]
    IN  MailsOf(texts, Len(texts))

\* Inputs: the messages and the logs of email_mention.
Messages == SeqsUpTo(MessageChars, MaxMsgLen)

OlderMessages == {<<"@", "a">>, <<"@", "b", ".">>}

MentionLogs ==
    {<<>>} \cup {<<MessageCommit("c2", m)>> : m \in Messages}
    \cup {<<MessageCommit("c2", m), MessageCommit("c1", n)>> : m \in Messages, n \in OlderMessages}

\* Inputs: the files and the logs of notify.
OwnedFiles ==
    {OwnedFile(p, "M", a, <<>>) : p \in {"f1", "f2"}, a \in {"unspecified", "unset"}}
    \cup {OwnedFile(p, st, "value", l) :
             p \in {"f1", "f2"}, st \in {"M", "A"},
             l \in {<<a>> : a \in NotifyOwners} \cup (NotifyOwners \X NotifyOwners)}

\* mlHook: the hook module; mlLog: the commits parse_git_log lists for the
\* update; mlPc: whether compose_mail has returned; mlMails: the mails it
\* returned.
VARIABLES mlHook, mlLog, mlPc, mlMails

mlVars == <<mlHook, mlLog, mlPc, mlMails>>

MailInit ==
    /\ \/ mlHook = "email_mention" /\ mlLog \in MentionLogs
       \/ mlHook = "notify" /\ mlLog \in Logs(OwnedFiles)
    /\ mlPc = "call"
    /\ mlMails = {}

CallMentionComposeMail ==
    /\ mlHook = "email_mention" /\ mlPc = "call"
    /\ mlMails' = MentionComposeMail(mlLog)
    /\ mlPc' = "returned"
    /\ UNCHANGED <<mlHook, mlLog>>

CallNotifyComposeMail ==
    /\ mlHook = "notify" /\ mlPc = "call"
    /\ mlMails' = NotifyComposeMail(mlLog)
    /\ mlPc' = "returned"
    /\ UNCHANGED <<mlHook, mlLog>>

NoComposeMail ==
    /\ mlHook = "none"
    /\ mlLog = <<>>
    /\ mlPc = "none"
    /\ mlMails = {}

(***************************************************************************)
(* The hooks that read files, called on a repository: the log is what      *)
(* parse_git_log returns for the update.                                   *)
(***************************************************************************)
ContentHooks == {"py_indent", "line_endings", "copyright"}

\* A file that the hook reports when it inspects it, and one it accepts.
BadFileFor(hook) ==
    CASE hook = "py_indent" -> ShownFile(APy, "M", "unspecified", TabThenSpace)
      [] hook = "line_endings" -> ShownFile(APy, "M", "unspecified", CrLfThenLf)
      [] hook = "copyright" -> ShownFile(APy, "M", "unspecified", OldCopyright)

GoodFileFor(hook) ==
    CASE hook = "py_indent" -> ShownFile(APy, "M", "unspecified", SpacesOnly)
      [] hook = "line_endings" -> ShownFile(APy, "M", "unspecified", LfOnly)
      [] hook = "copyright" -> ShownFile(APy, "M", "unspecified", CurrentCopyright)

\* The raw listings of the commits: every commit changes one file.
Listings(hook) == {[c \in Commits |-> <<f>>] : f \in {BadFileFor(hook), GoodFileFor(hook)}}

\* The commits of the log, each with its listing.
LogWithFiles(log, listing) ==
    [k \in 1..Len(log) |-> LoggedCommit(log[k].commit, listing[log[k].commit])]

\* hook.check(branch, old_sha, new_sha) in the repository (line_endings with
\* its fourth argument, copyright constructed with one pair).
ContentCheckIn(hook, parents, refs, listing, branch, old_sha, new_sha) ==
    LET r == ParseGitLog(parents, refs, branch, old_sha, new_sha)
        log == IF r.kind = "return" THEN LogWithFiles(r.value, listing) ELSE <<>>
        settings == <<[start |-> <<Lit("C")>>, full |-> <<Lit("C"), Lit("%Y")>>]>>
    IN  CASE hook = "py_indent" ->
                 IF new_sha # Zero /\ r.kind = "raise" THEN r
                 ELSE PyIndentCheck(log, new_sha)
          [] hook = "line_endings" ->
                 IF new_sha # Zero /\ r.kind = "raise" THEN r
                 ELSE LineEndingsCheck(LineEndingsArity, log, new_sha)
          [] hook = "copyright" -> CopyrightCheck(settings, log, new_sha)

CallContentHook ==
    /\ gitOp = "none"
    /\ \E hook \in ContentHooks : \E listing \in Listings(hook) :
           /\ gitOp' = hook
           /\ gitResult' = ContentCheckIn(hook, gitParents, gitRefs, listing,
                                          gitUpdate.branch, gitUpdate.old, gitUpdate.new)
    /\ UNCHANGED <<gitParents, gitRefs, gitUpdate, gitSettings>>

(***************************************************************************)
(* Githooks (githooks.py): the configuration, load and run.                *)
(***************************************************************************)
\* conf: the configuration file, names in declared order; params: the shared
\* parameters; pc: where the process is ("init", "read", "check", "exited",
\* "failed" in __init__, "aborted" by an exception in run); hooks: self.hooks;
\* lines: the input lines read so far; hi: the index of the hook to call next
\* for the last line; permit: run's permit; out: the lines printed;
\* results: the calls of check made, in order, each with what it did;
\* exitStatus: the exit status of the process, -1 while it runs.
VARIABLES conf, params, pc, hooks, lines, hi, permit, out, results, exitStatus

ghVars == <<conf, params, pc, hooks, lines, hi, permit, out, results, exitStatus>>

vars == <<conf, params, pc, hooks, lines, hi, permit, out, results, exitStatus,
          hkName, hkSettings, hkParams, hkUpdate, hkResult,
          gitParents, gitRefs, gitUpdate, gitSettings, gitOp, gitResult,
          gaPc, gaCalls, gaArgs, gaIdx, gaTmp, gaOut, gaResult,
          mcKeys, mcPr, mcFiles, mcLookupFails, mcResult,
          ctHook, ctSettings, ctLog, ctNew, ctResult,
          mlHook, mlLog, mlPc, mlMails>>

\* One hook of the configuration file: "name": settings.
Entry(name, settings) == [name |-> name, settings |-> settings]

\* A name hooks.d has no module for.
NoSuchHook == "no_such_hook"

\* The names the configuration files of the model draw from.
ConfNames == {"restrict_branches", "py_indent", "deny_non_ff", "notify", "line_endings",
              NoSuchHook}

ConfSettingsOf(name) ==
    CASE name = "restrict_branches" ->
             {<<>>, <<Rule(RuleKeys, "allow", "create", PatAll, PatAll)>>}
      [] name = "deny_non_ff" -> {<<Re(PatAll)>>}
      [] name = "notify" -> {<<Re(PatRelease)>>}
      [] OTHER -> {<<>>}

\* The configuration files of the model, in the order the names are declared:
\* JSON objects of at most MaxHooks names, each name once.
RECURSIVE ConfsUpTo(_)
ConfsUpTo(n) ==
    IF n = 0 THEN {<<>>}
    ELSE LET shorter == ConfsUpTo(n - 1)
         IN  shorter \cup
             {Append(c, e) :
                 c \in shorter,
                 e \in UNION {{Entry(m, st) : st \in ConfSettingsOf(m)} : m \in ConfNames}}

Names(c) == [k \in 1..Len(c) |-> c[k].name]

DeclaredConfs ==
    {c \in ConfsUpTo(MaxHooks) : \A j, k \in 1..Len(c) : j # k => c[j].name # c[k].name}

\* conf = json.loads(...) is a dict: 'for hook in conf' visits the names in
\* the order of the dict's hash table, which is any order of the names.
DictOrders(c) ==
    {[k \in 1..Len(c) |-> c[f[k]]] :
        f \in {g \in [1..Len(c) -> 1..Len(c)] : \A j, k \in 1..Len(c) : j # k => g[j] # g[k]}}

\* __import__(hook) and module.Hook(repo_dir, conf[hook], hook_params)
Construct(entry) ==
    IF entry.name \notin HookModules THEN "ImportError"
    ELSE IF entry.name = "line_endings" THEN "TypeError"
    ELSE "ok"

\* LoadResult with a hook that cannot be loaded logged and left out.
LoadSkipsFailures(order) ==
    [ok |-> TRUE, hooks |-> SelectSeq(order, LAMBDA e : Construct(e) = "ok")]

\* Githooks.load over the names in the order `order`: the hooks, or the error
\* of the first name that does not load.
LoadResult(order) ==
    IF \E k \in 1..Len(order) : Construct(order[k]) # "ok"
    THEN [ok |-> FALSE, hooks |-> <<>>]
    ELSE [ok |-> TRUE, hooks |-> order]

\* Printed with only the first message of the list.
PrintedFirstOnly(branch, messages) ==
    IF messages = <<>> THEN <<>>
    ELSE <<[branch |-> branch, at |-> messages[1].at, text |-> messages[1].text]>>

\* for message in messages: print "[%s @ %s]: %s" % (branch, message['at'], message['text'])
Printed(branch, messages) ==
    [k \in 1..Len(messages) |->
        [branch |-> branch, at |-> messages[k].at, text |-> messages[k].text]]

\* Accumulate with the status of the last check alone.
AccumulateLast(old_permit, status) == status

\* permit = permit and status
Accumulate(old_permit, status) == old_permit /\ status

\* NextHook with the loop left at the first denial.
NextHookShortCircuit(i, status, nhooks) == IF status THEN i + 1 ELSE nhooks + 1

\* for hook in hooks: the hook that follows hook i, whatever its status
NextHook(i, status, nhooks) == i + 1

\* SettingsAfterCheck with the settings used up by the check.
SettingsConsumed(settings) == <<>>

\* self.settings after hook.check: the checks read self.settings and
\* self.params ('for rule in self.settings') and assign to neither.
SettingsAfterCheck(settings) == settings

\* if not permit: sys.exit(1); sys.exit(0)
ExitStatus(p) == IF ~p THEN 1 ELSE 0

\* The lines the input of the model draws from.
InputLines == {Update(Zero, "a1", Master), Update("a1", "b2", ReleaseX),
               Update("b2", Zero, Master)}

GhInit ==
    /\ conf \in DeclaredConfs
    /\ params \in {Params(ParamKeys \ missing, Mary) :
                      missing \in {{}, {"user_name"}, {"smtp_server"}}}
    /\ pc = "init"
    /\ hooks = <<>>
    /\ lines = <<>>
    /\ hi = 0
    /\ permit = TRUE
    /\ out = <<>>
    /\ results = <<>>
    /\ exitStatus = -1

\* Githooks.__init__: self.hooks = self.load(); an error ends the process.
Load ==
    /\ pc = "init"
    /\ \E order \in DictOrders(conf) :
          LET r == LoadResult(order)
          IN  IF r.ok
              THEN /\ hooks' = r.hooks
                   /\ pc' = "read"
                   /\ UNCHANGED exitStatus
              ELSE /\ pc' = "failed"
                   /\ exitStatus' = 1
                   /\ UNCHANGED hooks
    /\ UNCHANGED <<conf, params, lines, hi, permit, out, results>>

\* for line in fileinput.input(stdin): the next line of the input
ReadLine ==
    /\ pc = "read"
    /\ Len(lines) < MaxLines
    /\ \E u \in InputLines :
          /\ lines' = Append(lines, u)
          /\ hi' = 1
          /\ pc' = IF Len(hooks) = 0 THEN "read" ELSE "check"
    /\ UNCHANGED <<conf, params, hooks, permit, out, results, exitStatus>>

\* One turn of 'for hook in hooks': the check, its messages, the new permit.
\* An exception of the check is caught nowhere and ends the process.
Check ==
    /\ pc = "check"
    /\ LET u == lines[Len(lines)]
           h == hooks[hi]
       IN  \E o \in CheckOutcomes(h.name, h.settings, params, u.branch, u.old, u.new) :
              /\ results' = Append(results, [line |-> Len(lines), hook |-> hi, outcome |-> o])
              /\ IF o.kind = "return"
                 THEN /\ out' = out \o Printed(u.branch, o.messages)
                      /\ permit' = Accumulate(permit, o.permit)
                      /\ hi' = NextHook(hi, o.permit, Len(hooks))
                      /\ pc' = IF hi' > Len(hooks) THEN "read" ELSE "check"
                      /\ UNCHANGED exitStatus
                 ELSE /\ pc' = "aborted"
                      /\ exitStatus' = 1
                      /\ UNCHANGED <<out, permit, hi>>
    /\ hooks' = [hooks EXCEPT ![hi].settings = SettingsAfterCheck(@)]
    /\ UNCHANGED <<conf, params, lines>>

\* The input is exhausted: sys.exit
Exit ==
    /\ pc = "read"
    /\ pc' = "exited"
    /\ exitStatus' = ExitStatus(permit)
    /\ UNCHANGED <<conf, params, hooks, lines, hi, permit, out, results>>

NoHookObject ==
    /\ hkName = "none"
    /\ hkSettings = <<>>
    /\ hkParams = Params({}, Mary)
    /\ hkUpdate = Update(Zero, Zero, Master)
    /\ hkResult = NotCalled

NoEngine ==
    /\ conf = <<>>
    /\ params = Params({}, Mary)
    /\ pc = "none"
    /\ hooks = <<>>
    /\ lines = <<>>
    /\ hi = 0
    /\ permit = TRUE
    /\ out = <<>>
    /\ results = <<>>
    /\ exitStatus = -1

\* The Githooks process.
Init == GhInit /\ NoHookObject /\ NoRepository /\ NoGetAttr /\ NoMergeCheck /\
    NoContentHook /\ NoComposeMail

Next ==
    \/ Load /\ UNCHANGED <<hkVars, gitVars, gaVars, mcVars, ctVars, mlVars>>
    \/ ReadLine /\ UNCHANGED <<hkVars, gitVars, gaVars, mcVars, ctVars, mlVars>>
    \/ Check /\ UNCHANGED <<hkVars, gitVars, gaVars, mcVars, ctVars, mlVars>>
    \/ Exit /\ UNCHANGED <<hkVars, gitVars, gaVars, mcVars, ctVars, mlVars>>

Spec == Init /\ [][Next]_vars

\* One hook object called directly.
InitCheck == HookInit /\ NoEngine /\ NoRepository /\ NoGetAttr /\ NoMergeCheck /\
    NoContentHook /\ NoComposeMail

NextCheck == CallCheck /\ UNCHANGED <<ghVars, gitVars, gaVars, mcVars, ctVars, mlVars>>

SpecCheck == InitCheck /\ [][NextCheck]_vars

\* The functions that query the repository, called on a repository.
InitGit == GitInit /\ NoEngine /\ NoHookObject /\ NoGetAttr /\ NoMergeCheck /\
    NoContentHook /\ NoComposeMail

NextGit ==
    \/ CallParseGitLog /\ UNCHANGED <<ghVars, hkVars, gaVars, mcVars, ctVars, mlVars>>
    \/ CallDenyNonFf /\ UNCHANGED <<ghVars, hkVars, gaVars, mcVars, ctVars, mlVars>>
    \/ CallRejectmerge /\ UNCHANGED <<ghVars, hkVars, gaVars, mcVars, ctVars, mlVars>>
    \/ CallContentHook /\ UNCHANGED <<ghVars, hkVars, gaVars, mcVars, ctVars, mlVars>>

SpecGit == InitGit /\ [][NextGit]_vars

\* Calls of hookutil.get_attr, one after the other.
InitAttr == AttrInit /\ NoEngine /\ NoHookObject /\ NoRepository /\ NoMergeCheck /\
    NoContentHook /\ NoComposeMail

NextAttr ==
    \/ Mkstemp /\ UNCHANGED <<ghVars, hkVars, gitVars, mcVars, ctVars, mlVars>>
    \/ ReadTree /\ UNCHANGED <<ghVars, hkVars, gitVars, mcVars, ctVars, mlVars>>
    \/ CheckAttr /\ UNCHANGED <<ghVars, hkVars, gitVars, mcVars, ctVars, mlVars>>
    \/ RemoveIdx /\ UNCHANGED <<ghVars, hkVars, gitVars, mcVars, ctVars, mlVars>>
    \/ ParseOutput /\ UNCHANGED <<ghVars, hkVars, gitVars, mcVars, ctVars, mlVars>>

SpecAttr == InitAttr /\ [][NextAttr]_vars

\* merge_check called on a pull request.
InitMerge == MergeInit /\ NoEngine /\ NoHookObject /\ NoRepository /\ NoGetAttr /\
    NoContentHook /\ NoComposeMail

NextMerge == CallMergeCheck /\ UNCHANGED <<ghVars, hkVars, gitVars, gaVars, ctVars, mlVars>>

SpecMerge == InitMerge /\ [][NextMerge]_vars

\* The hooks that read the files of the commits, called on a log.
InitContent == ContentInit /\ NoEngine /\ NoHookObject /\ NoRepository /\ NoGetAttr /\
    NoMergeCheck /\ NoComposeMail

NextContent ==
    \/ CallPyIndent /\ UNCHANGED <<ghVars, hkVars, gitVars, gaVars, mcVars, mlVars>>
    \/ CallLineEndings /\ UNCHANGED <<ghVars, hkVars, gitVars, gaVars, mcVars, mlVars>>
    \/ CallCopyright /\ UNCHANGED <<ghVars, hkVars, gitVars, gaVars, mcVars, mlVars>>

SpecContent == InitContent /\ [][NextContent]_vars

\* compose_mail of email_mention and of notify, called on a log.
InitMail == MailInit /\ NoEngine /\ NoHookObject /\ NoRepository /\ NoGetAttr /\
    NoMergeCheck /\ NoContentHook

NextMail ==
    \/ CallMentionComposeMail /\ UNCHANGED <<ghVars, hkVars, gitVars, gaVars, mcVars, ctVars>>
    \/ CallNotifyComposeMail /\ UNCHANGED <<ghVars, hkVars, gitVars, gaVars, mcVars, ctVars>>

SpecMail == InitMail /\ [][NextMail]_vars

(***************************************************************************)
(* Properties of Githooks.load and Githooks.run (under Spec).              *)
(***************************************************************************)
RunEnded == pc \in {"exited", "aborted"}

Returned(k) == results[k].outcome.kind = "return"

\* Some call of the log is the check of hook h for line l, returned with permit p.
ReturnedWith(l, h, p) ==
    \E k \in 1..Len(results) :
        /\ results[k].line = l /\ results[k].hook = h
        /\ Returned(k) /\ results[k].outcome.permit = p

EveryCheckPermitted ==
    \A l \in 1..Len(lines), h \in 1..Len(hooks) : ReturnedWith(l, h, TRUE)

SomeCheckDenied ==
    \E l \in 1..Len(lines), h \in 1..Len(hooks) : ReturnedWith(l, h, FALSE)

\* C1: when run ends, the exit status is 0 if and only if every hook's check
\* returned a true permit for every line read; once some check has returned a
\* false permit, permit is false whatever the later checks return, and the
\* exit status is 1.
C1_ExitStatusIsConjunction ==
    /\ RunEnded => (exitStatus = 0 <=> EveryCheckPermitted)
    /\ SomeCheckDenied => (~permit /\ (RunEnded => exitStatus = 1))

\* A run that ended after a denial followed by a later check that permitted.
C1_Witness ==
    /\ pc = "exited" /\ exitStatus = 1
    /\ \E j, k \in 1..Len(results) :
          /\ j < k
          /\ Returned(j) /\ ~results[j].outcome.permit
          /\ Returned(k) /\ results[k].outcome.permit

\* C2: the calls of check are, in order, hook 1..n for line 1, hook 1..n for
\* line 2, ...: no (line, hook) pair is called twice or skipped, whatever the
\* earlier checks returned; only an exception of a check stops the sequence,
\* and at exit every pair has been called exactly once.
C2_EveryCheckInvokedOnce ==
    /\ \A k \in 1..Len(results) :
          /\ results[k].line = ((k - 1) \div Len(hooks)) + 1
          /\ results[k].hook = ((k - 1) % Len(hooks)) + 1
          /\ (k < Len(results) => Returned(k))
    /\ pc = "exited" => Len(results) = Len(lines) * Len(hooks)
    /\ pc = "aborted" => ~Returned(Len(results))

\* A run that ended with a denial by the first hook for the first line, two
\* hooks and two lines.
C2_Witness ==
    /\ pc = "exited"
    /\ Len(hooks) >= 2 /\ Len(lines) >= 2
    /\ ~results[1].outcome.permit

\* C3: load returns the hooks in the order the names are declared in the
\* configuration, and run calls them in that order for every line.
C3_DeclaredOrderKept ==
    pc \in {"read", "check", "exited", "aborted"} =>
        /\ Names(hooks) = Names(conf)
        /\ \A k \in 1..Len(results) :
              hooks[results[k].hook].name = conf[((k - 1) % Len(conf)) + 1].name

\* The lines printed for the first k calls of check.
RECURSIVE Transcript(_)
Transcript(k) ==
    IF k = 0 THEN <<>>
    ELSE LET msgs == results[k].outcome.messages
             branch == lines[results[k].line].branch
         IN  Transcript(k - 1) \o
             [i \in 1..Len(msgs) |->
                 [branch |-> branch, at |-> msgs[i].at, text |-> msgs[i].text]]

\* C4: the output is, at every moment and so at exit, the messages of the
\* checks called so far, each once as [branch @ at]: text with the branch of
\* its line, in the order of the calls (line, then hook) and, within a call,
\* in the order of the returned list.
C4_TranscriptInOrder ==
    /\ out = Transcript(Len(results))
    /\ \A j, k \in 1..Len(results) :
          j < k => \/ results[j].line < results[k].line
                   \/ results[j].line = results[k].line /\ results[j].hook < results[k].hook

\* A run that ended after a check returned two messages and after messages
\* for two branches were printed.
C4_Witness ==
    /\ pc = "exited"
    /\ \E k \in 1..Len(results) : Len(results[k].outcome.messages) = 2
    /\ \E i, j \in 1..Len(out) : out[i].branch # out[j].branch

Unresolvable(c) == \E k \in 1..Len(c) : c[k].name \notin HookModules

\* C5: with a name in the configuration that resolves to no hook module, the
\* construction fails: the process ends with an error, no check is ever
\* called and nothing is printed.
C5_UnresolvedNameIsFatal ==
    Unresolvable(conf) =>
        /\ pc \in {"init", "failed"}
        /\ pc = "failed" => exitStatus = 1
        /\ hooks = <<>> /\ results = <<>> /\ out = <<>>

\* The construction has failed for a configuration that declares a hook that
\* loads before the name that does not resolve.
C5_Witness ==
    /\ pc = "failed"
    /\ Len(conf) = 2
    /\ conf[1].name = "restrict_branches"
    /\ conf[2].name = NoSuchHook

\* The parameters a hook's check reads in its try block.
RequiredParams(name) ==
    CASE name = "restrict_branches" -> {"user_name"}
      [] name = "merge_check" -> MergeCheckParams
      [] name = "email_mention" -> EmailMentionParams
      [] name = "notify" -> NotifyParams
      [] OTHER -> {}

\* C6: when a loaded hook lacks a required parameter, no check has returned
\* for any line and nothing has been printed.
C6_MissingParamAbortsFirst ==
    (\E h \in 1..Len(hooks) : MissingParam(params, RequiredParams(hooks[h].name))) =>
        /\ \A k \in 1..Len(results) : ~Returned(k)
        /\ out = <<>>

(***************************************************************************)
(* Properties of the checks (under SpecCheck).                             *)
(***************************************************************************)
IsNewBranch == hkUpdate.old = Zero

\* The rule applies to the push: its branch regex matches the ref name, its
\* user regex matches the pusher, and its type is the kind of the push.
RbApplies(rule) ==
    /\ rule.keys = RuleKeys
    /\ rule.policy \in {"allow", "deny"}
    /\ Compiles(rule.branch) /\ ReMatch(rule.branch, hkUpdate.branch)
    /\ Compiles(rule.user) /\ ReMatch(rule.user, hkParams.user_name)
    /\ rule.type = (IF IsNewBranch THEN "create" ELSE "update")

ApplicableRules(settings) == {k \in 1..Len(settings) : RbApplies(settings[k])}

\* The policy of the last rule that applies; deny when none does.
LastRuleVerdict(settings) ==
    LET a == ApplicableRules(settings)
    IN  a # {} /\ settings[CHOOSE k \in a : \A j \in a : j <= k].policy = "allow"

RbReturned == hkName = "restrict_branches" /\ hkResult.kind = "return"

\* C7: the verdict of restrict_branches is the policy of the last rule of
\* the list that applies to the push; rules of the other type or whose
\* regexes do not match change nothing, wherever they stand.
C7_LastApplicableRuleWins ==
    RbReturned => hkResult.permit = LastRuleVerdict(hkSettings)

\* Two rules apply with different policies, and a verdict was returned.
C7_Witness ==
    /\ RbReturned
    /\ Len(hkSettings) = 2
    /\ ApplicableRules(hkSettings) = {1, 2}
    /\ hkSettings[1].policy # hkSettings[2].policy

\* C8: when no rule applies the verdict is deny with exactly one message
\* 'Error: You have no permission to <create|update> <branch>' at the new
\* id; when the verdict is permit there is no message.
C8_DefaultDenyMessage ==
    RbReturned =>
        /\ ApplicableRules(hkSettings) = {} =>
              /\ ~hkResult.permit
              /\ hkResult.messages =
                    <<[at |-> hkUpdate.new,
                       text |-> [fmt |-> "Error: You have no permission to %s %s",
                                 kind |-> IF IsNewBranch THEN "create" ELSE "update",
                                 about |-> hkUpdate.branch]]>>
        /\ hkResult.permit => hkResult.messages = <<>>

\* A creation of a branch checked against an empty rule list.
C8_Witness ==
    /\ RbReturned
    /\ hkSettings = <<>>
    /\ IsNewBranch
    /\ ~hkResult.permit

RbMalformed(rule) ==
    \/ rule.keys # RuleKeys
    \/ rule.policy \notin {"allow", "deny"}
    \/ rule.type \notin {"create", "update"}
    \/ ~Compiles(rule.branch)
    \/ ~Compiles(rule.user)

\* C9: a malformed rule is skipped without an error, and the verdict is the
\* one of the list without its malformed rules.
C9_MalformedRuleSkipped ==
    (hkName = "restrict_branches" /\ hkResult # NotCalled
        /\ ~MissingParam(hkParams, {"user_name"})) =>
        /\ hkResult.kind = "return"
        /\ hkResult.permit =
              LastRuleVerdict(SelectSeq(hkSettings, LAMBDA r : ~RbMalformed(r)))

\* C10: a check of any hook but restrict_branches on a deletion returns
\* permit with no message and raises nothing.
C10_DeletionPermitted ==
    (hkName # "restrict_branches" /\ hkUpdate.new = Zero /\ hkResult # NotCalled) =>
        hkResult = Return(TRUE, <<>>)

(***************************************************************************)
(* Properties of the functions that query the repository (under SpecGit).  *)
(***************************************************************************)
\* a is b or an ancestor of b in the repository.
IsAncestor(a, b) == a \in Reach(gitParents, {b})

\* The refs of the repository other than the one being updated.
OtherRefs == DOMAIN gitRefs \ {gitUpdate.branch}

\* The commits of the update that no other ref reaches.
ExclusiveCommits ==
    {c \in Commits : /\ IsAncestor(c, gitUpdate.new)
                     /\ gitUpdate.old # Zero => ~IsAncestor(c, gitUpdate.old)
                     /\ \A r \in OtherRefs : ~IsAncestor(c, gitRefs[r])}

\* C11: deny_non_ff, for an update whose old and new ids are both non-null,
\* denies if and only if the ref name matches at least one configured pattern
\* that compiles and some commit is reachable from the old tip but not from
\* the new tip; on deny it returns exactly one message, anchored at the new id,
\* with the fixed sentence and the four-line hint, and on permit no message.
C11_NonFastForwardDenied ==
    (gitOp = "deny_non_ff" /\ gitUpdate.old # Zero /\ gitUpdate.new # Zero) =>
        /\ gitResult.kind = "return"
        /\ ~gitResult.permit <=>
               /\ \E k \in 1..Len(gitSettings) :
                      Compiles(gitSettings[k].re) /\ ReMatch(gitSettings[k].re, gitUpdate.branch)
               /\ \E c \in Commits : IsAncestor(c, gitUpdate.old) /\ ~IsAncestor(c, gitUpdate.new)
        /\ ~gitResult.permit =>
               /\ Len(gitResult.messages) = 1
               /\ gitResult.messages[1].at = gitUpdate.new
               /\ gitResult.messages[1].text.fmt = "Cannot push a non-fast-forward reference"
               /\ Len(gitResult.messages[1].text.about) = 4
        /\ gitResult.permit => gitResult.messages = <<>>

\* A rewritten history is denied on a branch matched by the second pattern of
\* a list whose first pattern does not compile.
C11_Witness ==
    /\ gitOp = "deny_non_ff"
    /\ gitSettings = <<Re(PatBad), Re(PatRelease)>>
    /\ gitUpdate.branch = ReleaseX
    /\ gitUpdate.old # Zero /\ gitUpdate.new # Zero
    /\ ~IsAncestor(gitUpdate.old, gitUpdate.new)
    /\ gitResult.kind = "return" /\ ~gitResult.permit

ParentBranches(p) ==
    LET containing == {b \in DOMAIN gitRefs \cap Branches : IsAncestor(p, gitRefs[b])}
    IN  IF containing = {} THEN {gitUpdate.branch} ELSE containing

SameBranchMerge(c) ==
    /\ Cardinality(gitParents[c]) >= 2
    /\ Cardinality(UNION {ParentBranches(p) : p \in gitParents[c]}) = 1

\* C17: rejectmerge denies when some exclusive commit has two or more parents
\* that all resolve to the same single branch, with a message anchored at
\* each such commit, and does not deny when there is no such commit.
C17_SameBranchMergeDenied ==
    (gitOp = "rejectmerge" /\ gitUpdate.new # Zero) =>
        /\ \A c \in ExclusiveCommits :
               SameBranchMerge(c) =>
                   /\ gitResult.kind = "return"
                   /\ ~gitResult.permit
                   /\ \E k \in 1..Len(gitResult.messages) : gitResult.messages[k].at = c
        /\ (gitResult.kind = "return" /\ ~gitResult.permit) =>
               \E c \in ExclusiveCommits : SameBranchMerge(c)

(***************************************************************************)
(* Properties of hookutil.get_attr (under SpecAttr).                       *)
(***************************************************************************)
GetAttrEnded == gaPc = "idle" /\ gaCalls > 0

\* C13: get_attr removes the temporary index file it created on every exit
\* path: a normal return, a failing 'git read-tree', a failing
\* 'git check-attr', a failing assertion on the output.
C13_TempIndexRemoved == GetAttrEnded => gaIdx \notin gaTmp

(***************************************************************************)
(* Properties of the notification hooks (under SpecCheck).                 *)
(***************************************************************************)
\* C14: email_mention and notify never block a push: with all their
\* parameters present, check returns (True, []) for every ref update and
\* every outcome of the mail delivery, and never raises (the commands of git
\* that compose_mail runs not failing).
GitFailed(o) == o.kind = "raise" /\ o.exc \in {"CalledProcessError", "AssertionError"}

C14_NotificationNeverBlocks ==
    (/\ hkName \in {"email_mention", "notify"}
     /\ ParamKeys \subseteq hkParams.keys
     /\ hkResult # NotCalled
     /\ ~GitFailed(hkResult)) => hkResult = Return(TRUE, <<>>)

(***************************************************************************)
(* Properties of merge_check (under SpecMerge).                            *)
(***************************************************************************)
MergeCheckCalled == mcResult # NotCalled /\ MergeCheckParams \subseteq mcKeys

\* The owners whose user record check asks the host for: those of a list up
\* to the pusher.
RequestedOwners ==
    {o \in OtherOwners :
        \E k \in 1..Len(mcFiles) : \E i \in 1..Len(mcFiles[k].owners) :
            /\ mcFiles[k].attr = "value"
            /\ mcFiles[k].owners[i] = o
            /\ \A j \in 1..i : mcFiles[k].owners[j] # PusherMail}

\* C15: any failed request to the host during check, for the pull request or
\* for the user record of an owner, ends in an exception raised to the caller.
C15_FailedRequestIsFatal ==
    (/\ MergeCheckCalled
     /\ \/ mcPr.kind = "failed"
        \/ mcPr.kind = "ok" /\ RequestedOwners \cap mcLookupFails # {})
    => mcResult.kind = "raise"

\* An owner listed for a file, other than the pusher, who has not approved.
Outstanding ==
    \E k \in 1..Len(mcFiles) :
        /\ mcFiles[k].attr = "value"
        /\ \E i \in 1..Len(mcFiles[k].owners) :
               /\ mcFiles[k].owners[i] # PusherMail
               /\ mcFiles[k].owners[i] \notin ApprovedReviewers(mcPr)

\* C16: with every request to the host answered, the verdict of merge_check
\* is permit if and only if, for every file whose 'owners' attribute has a
\* value, every listed owner other than the pusher is among the reviewers who
\* approved, whatever the order of the owners in the list.
C16_PermitIffAllOwnersApproved ==
    (MergeCheckCalled /\ mcPr.kind = "ok" /\ mcLookupFails = {}
     /\ mcResult.kind = "return")
    => (mcResult.permit <=> ~Outstanding)

(***************************************************************************)
(* Properties of the hooks that read files (under SpecContent).            *)
(***************************************************************************)
\* The files of the commits of the update that are not deleted: pairs of the
\* index of a commit in the log and the index of a file in its listing.
LiveFiles ==
    {cf \in (1..Len(ctLog)) \X (1..MaxFiles) :
        /\ cf[2] <= Len(ctLog[cf[1]].modfiles)
        /\ ctLog[cf[1]].modfiles[cf[2]].status # "D"}

FileAt(cf) == ctLog[cf[1]].modfiles[cf[2]]

\* A check that returned with one message from `text` for each file of
\* `offending`, anchored at the commit of the file, with `extra` more
\* messages, and denied if and only if there is such a file.
OneMessagePerFile(offending, text(_), extra) ==
    /\ ctResult.kind = "return"
    /\ ~ctResult.permit <=> offending # {}
    /\ Len(ctResult.messages) = Cardinality(offending) + extra
    /\ \A cf \in offending :
           \E k \in 1..Len(ctResult.messages) :
               ctResult.messages[k] = Message(ctLog[cf[1]].commit, text(FileAt(cf).path))

\* The positions of contents where a line begins.
LineStarts(contents) ==
    {i \in 1..Len(contents) : i = 1 \/ contents[i - 1] = "\n"}

TabAndSpaceLines(contents) ==
    \E i, j \in LineStarts(contents) : contents[i] = "\t" /\ contents[j] = " "

MixedLineEndingFiles ==
    {cf \in LiveFiles :
        /\ FileAt(cf).text_attr = "unspecified"
        /\ \E i \in 1..(Len(FileAt(cf).contents) - 1) :
               FileAt(cf).contents[i] = "\r" /\ FileAt(cf).contents[i + 1] = "\n"
        /\ \E i \in 1..Len(FileAt(cf).contents) :
               /\ FileAt(cf).contents[i] = "\n"
               /\ (i = 1 \/ FileAt(cf).contents[i - 1] # "\r")}

\* C18: line_endings denies if and only if some file of some exclusive
\* commit that is not deleted has the text attribute 'unspecified' and
\* contents with both a CRLF and a bare LF; each such file yields one message
\* "Error: file '<path>' has mixed line endings (CRLF/LF)" anchored at its
\* commit; deleted files and files with another text attribute neither change
\* the verdict nor cause an error, wherever they are in the list.
C18_MixedLineEndingsDenied ==
    (ctHook = "line_endings" /\ ctResult # NotCalled) =>
        OneMessagePerFile(MixedLineEndingFiles, MixedLineEndings, 0)

MixedIndentFiles ==
    {cf \in LiveFiles :
        /\ EndsWith(FileAt(cf).path, ".py")
        /\ TabAndSpaceLines(FileAt(cf).contents)}

\* C19: py_indent denies if and only if some '.py' file of some exclusive
\* commit that is not deleted has one line that begins with a tab and another
\* that begins with a space; each such file yields one message "Error: file
\* '<path>' has mixed indentation" anchored at its commit; other files and
\* files indented with spaces only yield no message and no denial.
C19_MixedIndentDenied ==
    (ctHook = "py_indent" /\ ctResult # NotCalled) =>
        OneMessagePerFile(MixedIndentFiles, MixedIndent, 0)

\* A '.txt' file with both indentations and a deleted '.py' file pass while a
\* '.py' file with both is reported.
C19_Witness ==
    /\ ctHook = "py_indent"
    /\ ctResult.kind = "return" /\ ~ctResult.permit
    /\ Len(ctResult.messages) = 1
    /\ \E c \in 1..Len(ctLog) : \E k \in 1..Len(ctLog[c].modfiles) :
           LET f == ctLog[c].modfiles[k]
           IN  (f.path = CTxt /\ f.contents = TabThenSpace) \/ f.status = "D"

BadCopyrightFiles ==
    {cf \in LiveFiles :
        \E k \in 1..Len(ctSettings) :
            /\ ReSearch(YearReplaced(ctSettings[k].start), FileAt(cf).contents)
            /\ ~ReSearch(YearReplaced(ctSettings[k].full), FileAt(cf).contents)}

\* C20: copyright denies if and only if some changed file that is not deleted
\* is matched by the start pattern of a configured pair but not by its full
\* pattern; on deny the messages are one "Error: Bad copyright in file
\* '<path>'!" for each such file, then one message anchored at the new id
\* that quotes every full pattern; with no pair configured it permits with no
\* message.
C20_BadCopyrightDenied ==
    (ctHook = "copyright" /\ ctResult # NotCalled) =>
        /\ OneMessagePerFile(BadCopyrightFiles, BadCopyright,
                             IF BadCopyrightFiles # {} THEN 1 ELSE 0)
        /\ BadCopyrightFiles # {} =>
               ctResult.messages[Len(ctResult.messages)] =
                   Message(ctNew, UpdateCopyright(CopyrightSettings(ctSettings)))
        /\ ctSettings = <<>> => ctResult = Return(TRUE, <<>>)

(***************************************************************************)
(* Properties of deny_non_ff and restrict_branches on the creation and the *)
(* deletion of a branch.                                                   *)
(***************************************************************************)
\* C27: deny_non_ff, on the creation of a branch (old id all-zero, new id
\* not) whose name matches a configured pattern, permits with no message.
C27_CreationPermitted ==
    (/\ gitOp = "deny_non_ff"
     /\ gitUpdate.old = Zero /\ gitUpdate.new # Zero
     /\ AnyPatternMatches(gitSettings, gitUpdate.branch))
    => gitResult = Return(TRUE, <<>>)

\* The rules of type 'update' that match the branch and the pusher.
UpdateRules(settings) ==
    {k \in 1..Len(settings) :
        /\ settings[k].keys = RuleKeys
        /\ settings[k].policy \in {"allow", "deny"}
        /\ settings[k].type = "update"
        /\ Compiles(settings[k].branch) /\ ReMatch(settings[k].branch, hkUpdate.branch)
        /\ Compiles(settings[k].user) /\ ReMatch(settings[k].user, hkParams.user_name)}

IsDeletion == hkUpdate.new = Zero /\ hkUpdate.old # Zero

\* C29: restrict_branches treats the deletion of a branch as an 'update'
\* push: it permits if and only if the last rule of type 'update' that
\* applies is an allow rule, and otherwise denies with the message 'Error:
\* You have no permission to update <branch>'; with no such rule a deletion
\* is denied.
C29_DeletionIsUpdate ==
    (RbReturned /\ IsDeletion) =>
        LET u == UpdateRules(hkSettings)
        IN  /\ hkResult.permit <=>
                   (u # {} /\ hkSettings[CHOOSE k \in u : \A j \in u : j <= k].policy = "allow")
            /\ ~hkResult.permit =>
                   hkResult.messages =
                       <<Message(hkUpdate.new, NoPermission("update", hkUpdate.branch))>>
            /\ hkResult.permit => hkResult.messages = <<>>

\* A deletion is denied although a rule allows the pusher to create the
\* branch.
C29_Witness ==
    /\ RbReturned /\ IsDeletion
    /\ ~hkResult.permit
    /\ \E k \in 1..Len(hkSettings) :
           hkSettings[k] = Rule(RuleKeys, "allow", "create", PatAll, PatAll)

\* Some ref other than the one being updated points at the new tip or at a
\* descendant of it.
NewTipReached ==
    gitUpdate.new # Zero /\ \E r \in OtherRefs : IsAncestor(gitUpdate.new, gitRefs[r])

\* C28: when some other ref already reaches the new tip, parse_git_log
\* returns no commit and line_endings, py_indent and copyright permit the
\* update with no message, whatever the pushed files contain.
C28_ReachedTipNotInspected ==
    NewTipReached =>
        /\ gitOp = "parse_git_log" => gitResult = Returns(<<>>)
        /\ gitOp \in ContentHooks => gitResult = Return(TRUE, <<>>)

\* all_owners of merge_check: the owners of the files check found unapproved.
AllOwners ==
    LET files == FilesLoop(mcFiles, 1, PusherMail, ApprovedReviewers(mcPr), mcLookupFails)
    IN  {files[k].owner : k \in 1..Len(files)}

\* C30: with the pull request fetched and any non-zero number of distinct
\* owners outstanding, merge_check builds its report without raising and
\* returns deny.
C30_ReportNeverRaises ==
    (MergeCheckCalled /\ mcPr.kind = "ok" /\ AllOwners # {})
    => mcResult = Return(FALSE, <<>>)

\* C25: whichever hook is called, a check that returns deny returns at least
\* one message with it, so that a denied update has a line in the transcript.
C25_DenialHasMessage ==
    (hkResult.kind = "return" /\ ~hkResult.permit) => Len(hkResult.messages) >= 1

\* C26: every hook module of hooks.d can be constructed as
\* Hook(repo_dir, settings, params): a configuration that names hook modules
\* only never fails to load.
C26_EveryModuleConstructs ==
    ~Unresolvable(conf) => pc # "failed"

(***************************************************************************)
(* The order of the messages of line_endings and py_indent (SpecContent).  *)
(***************************************************************************)
\* File cf comes before file dg: in an earlier commit of the log, or earlier
\* in the listing of the same commit.
Before(cf, dg) == cf[1] < dg[1] \/ (cf[1] = dg[1] /\ cf[2] < dg[2])

\* The messages returned follow the log: of any two, the first is about a
\* file that comes before the file of the second.
InLogOrder(text(_)) ==
    \A k, l \in 1..Len(ctResult.messages) :
        k < l =>
            \E cf, dg \in LiveFiles :
                /\ ctResult.messages[k] = Message(ctLog[cf[1]].commit, text(FileAt(cf).path))
                /\ ctResult.messages[l] = Message(ctLog[dg[1]].commit, text(FileAt(dg).path))
                /\ Before(cf, dg)

InputDetermined == {"restrict_branches"}

\* Calls j and k of the log are calls of the same hook for the same update.
SameCall(j, k) ==
    /\ results[j].hook = results[k].hook
    /\ lines[results[j].line] = lines[results[k].line]

MentionsIn(s) ==
    {SubSeq(s, je[1] + 1, je[2]) :
        je \in {x \in (1..Len(s)) \X (1..Len(s)) :
                   /\ s[x[1]] = "@"
                   /\ x[1] = 1 \/ ~IsWord(s[x[1] - 1])
                   /\ x[2] > x[1]
                   /\ IsWord(s[x[1] + 1]) /\ IsWord(s[x[2]])
                   /\ \A k \in (x[1] + 1)..x[2] : IsWord(s[k]) \/ s[k] = "."
                   /\ \A e \in (x[2] + 1)..Len(s) :
                          IsWord(s[e]) => \E k \in (x[2] + 1)..e : ~IsWord(s[k]) /\ s[k] # "."}}

Mentioned == UNION {MentionsIn(mlLog[c].message) : c \in 1..Len(mlLog)}

\* C21: email_mention.compose_mail returns one mail for each distinct
\* username mentioned as '@username' in the messages of the commits of the
\* log, to '<username>@<email_domain>', however often and in however many
\* commits the name is mentioned; an '@' after a word character mentions
\* nobody and dots after the name are not part of it.
C21_OneMailPerMention ==
    (mlHook = "email_mention" /\ mlPc = "returned") =>
        /\ {m.to : m \in mlMails} = {u \o <<"@">> \o EmailDomain : u \in Mentioned}
        /\ Cardinality(mlMails) = Cardinality(Mentioned)

\* b is mentioned in two commits, once with a dot after the name; the '@a'
\* that follows the name b mentions nobody: one mail, to b.
C21_Witness ==
    /\ mlHook = "email_mention" /\ mlPc = "returned"
    /\ Len(mlLog) = 2
    /\ mlLog[1].message = <<"@", "b", "@", "a">>
    /\ mlLog[2].message = <<"@", "b", ".">>
    /\ mlMails = {Mail(<<"b", "@">> \o EmailDomain, <<"c2", "c1">>)}

\* Owner o is named in the 'owners' attribute of the file.
Owns(file, o) ==
    file.attr = "value" /\ \E k \in 1..Len(file.owners) : file.owners[k] = o

OwnsIn(c, o) == \E f \in 1..Len(mlLog[c].modfiles) : Owns(mlLog[c].modfiles[f], o)

NamedOwners == {o \in NotifyOwners : \E c \in 1..Len(mlLog) : OwnsIn(c, o)}

\* The commits of the log that change a file of owner o, in the order of the
\* log, each with the status and the path of the files of o it changes.
OwnedChanges(o) ==
    LET commits == SelectSeq([c \in 1..Len(mlLog) |-> c], LAMBDA c : OwnsIn(c, o))
    IN  [i \in 1..Len(commits) |->
            LET owned == SelectSeq(mlLog[commits[i]].modfiles, LAMBDA x : Owns(x, o))
            IN  [commit |-> mlLog[commits[i]].commit,
                 paths |-> [k \in 1..Len(owned) |->
                               [status |-> owned[k].status, path |-> owned[k].path]]]]

=============================================================================
